---- MODULE Spec2Model ----
(***************************************************************************)
(* Model of the worker-pool Tester of package bench (src/bench.go, second  *)
(* revision, lines 249-895): NewTester's result is the initial state,      *)
(* Tester.Run starts a producer goroutine that feeds the unbuffered work   *)
(* channel, a spawner goroutine that starts the workers, and then waits on *)
(* the WaitGroup; every worker runs Tester.DoRequest.                      *)
(***************************************************************************)
EXTENDS Integers, Sequences, FiniteSets, TLC

(* ---- bounds of the model ---- *)
MaxRequests == 2
MaxConcurrency == 2
MaxLatency == 1
MaxCalls == 3
MaxSample == 2
MaxSamples == 3
MaxCount == 20
MaxMetric == 2
MaxOpts == 3
MaxArgs == 3
MaxFraction == 5
MaxLines == 3
DefaultConcurrency == 1
DefaultNumRequests == 1

(* ---- program constants ---- *)
StatusOK == 200
StatusTeapot == 418

VARIABLES
    requests,        \* t.requests
    concurrency,     \* t.concurrency
    methodValid,     \* whether t.httpMethod is a method http.NewRequest accepts
    mainpc,          \* position of the caller inside Run
    result,          \* what Run returned: "none" (not yet), "nil", "err"
    stdout,          \* records printed by Run to t.stdout
    wg,              \* counter of t.wg
    ppc,             \* position of the producer goroutine
    px,              \* the producer's loop variable x
    spc,             \* position of the goroutine that starts the workers
    sx,              \* its loop variable x
    wpc,             \* position of each worker goroutine
    cur,             \* the unit of work a worker is handling (0: none)
    res,             \* the (resp, err) pair client.Do returned to the worker
    elapsed,         \* the worker's elapsedTime in ms
    mu,              \* holder of t.mu (0: unlocked)
    tmu,             \* holder of t.TimeRecorder.mu (0: unlocked)
    stats,           \* t.stats
    ExecutionsTime,  \* t.TimeRecorder.ExecutionsTime
    unit,            \* history: state of each unit of work
    resp,            \* history: what client.Do returned for each unit
    tally,           \* history: what the attempt on each unit added
    revision,        \* which revision of Tester the recorder calls are made on
    local,           \* what a caller of a Record function read under the lock
    issued,          \* history: the Record calls started so far
    mstats,          \* t.stats of the revisions with Fastest, Slowest and Mean
    ret,             \* what the metrics function called last returned
    cmp,             \* the comparator: arguments, CompareStats, error, output
    ctor,            \* a call of NewTester: options left, fields set, result
    cli,             \* a call of RunCLI: arguments, position, what it did
    codec,           \* a Stats record, its printed text, the record read back
    early            \* a run of an earlier revision: ticker Tester or LoadGen

later == <<ctor, cli, codec, early>>
aux == <<revision, local, issued, mstats, ret, cmp, later>>

vars == <<requests, concurrency, methodValid, mainpc, result, stdout, wg,
          ppc, px, spc, sx, wpc, cur, res, elapsed, mu, tmu, stats,
          ExecutionsTime, unit, resp, tally, aux>>

Workers == 1..(MaxConcurrency + 1)
Units == 1..(MaxRequests + 1)
Latencies == 1..MaxLatency
Callers == 1..MaxConcurrency
Samples == 1..MaxSample

NoResult == [err |-> FALSE, status |-> 0]
CallResults == {[err |-> FALSE, status |-> StatusOK],
                [err |-> FALSE, status |-> StatusTeapot],
                [err |-> TRUE, status |-> 0]}

ZeroTally == [req |-> 0, succ |-> 0, fail |-> 0, samples |-> 0, calls |-> 0]
ZeroStats == [Requests |-> 0, Successes |-> 0, Failures |-> 0,
              P50 |-> 0, P90 |-> 0, P99 |-> 0, URLSet |-> FALSE]

\* a quotient of two float64 values, kept exact
Quotient(a, b) == [num |-> a, den |-> b]
NoCall == [op |-> "none", arg |-> 0, val |-> 0]
ZeroIssued == [req |-> 0, succ |-> 0, fail |-> 0, times |-> <<>>]
ZeroMetrics == [Perc90 |-> 0, Perc99 |-> 0, Fastest |-> 0, Slowest |-> 0,
                Mean |-> Quotient(0, 1)]
NoReturn == [fn |-> "none", err |-> "none"]
NoCompare == [s1 |-> ZeroStats, s2 |-> ZeroStats, opts |-> <<>>,
              made |-> FALSE, S1 |-> ZeroStats, S2 |-> ZeroStats,
              Stdout |-> "", Stderr |-> "",
              err |-> "none", out |-> <<>>]

\* Stats as printed and read back: the URL is its chunks between spaces, the
\* percentiles are counted in ten-thousandths of a millisecond
EmptyStats == [URL |-> <<"">>, Requests |-> 0, Successes |-> 0, Failures |-> 0,
               P50 |-> 0, P90 |-> 0, P99 |-> 0]
NoOption == [name |-> "none", arg |-> 0]
NoCtor == [left |-> 0, applied |-> 0, last |-> NoOption, pc |-> "unused",
           err |-> "none", tester |-> "nil", work |-> FALSE, URL |-> <<>>,
           requests |-> 0, concurrency |-> 0, graphs |-> FALSE,
           outputPath |-> "", stdout |-> "", stderr |-> "",
           httpMethod |-> "", body |-> ""]
NoCLI == [args |-> <<>>, pc |-> "unused", err |-> "none", opened |-> 0,
          ran |-> FALSE, out |-> <<>>]
NoCodec == [in |-> EmptyStats, pc |-> "unused", text |-> <<>>,
            out |-> EmptyStats, err |-> "none"]
\* Stats of the first revisions, and a run of one of them not yet started
ZeroEarlyStats == [Requests |-> 0, Success |-> 0, Failures |-> 0,
                   Fastest |-> 0, Slowest |-> 0]
NoEarly == [kind |-> "none", requests |-> 0, pc |-> "unused", x |-> 0,
            work |-> 0, closed |-> FALSE, started |-> 0, wg |-> 0,
            g |-> <<>>, res |-> <<>>, stats |-> ZeroEarlyStats, times |-> <<>>,
            panic |-> "none", out |-> <<>>]

(* ---- pure helpers ---- *)

RECURSIVE Insert(_, _)
Insert(s, v) ==
    IF s = <<>> THEN <<v>>
    ELSE IF v < Head(s) THEN <<v>> \o s
    ELSE <<Head(s)>> \o Insert(Tail(s), v)

\* variant: the slice is left in the order of the appends
SortAsc_Unsorted(s) == s
RECURSIVE SortAsc(_)
SortAsc(s) == IF s = <<>> THEN <<>> ELSE Insert(SortAsc(Tail(s)), Head(s))

\* variant: math.Ceil in place of math.Round
PercentileIdx_Ceil(n, num, den) == ((n * num + den - 1) \div den) - 1
\* variant: the conversion truncates, math.Round is left out
PercentileIdx_Floor(n, num, den) == ((n * num) \div den) - 1
\* int(math.Round(float64(n) * num/den)) - 1, round half away from zero
PercentileIdx(n, num, den) == ((2 * n * num + den) \div (2 * den)) - 1

\* Go slices are indexed from 0, sequences from 1
At(s, i) == s[i + 1]

CalculatePercentiles(st, times) ==
    IF Len(times) < 1 THEN st
    ELSE LET sorted == SortAsc(times)
             n == Len(sorted)
         IN [st EXCEPT !.P50 = At(sorted, PercentileIdx(n, 50, 100)),
                       !.P90 = At(sorted, PercentileIdx(n, 90, 100)),
                       !.P99 = At(sorted, PercentileIdx(n, 99, 100)),
                       !.URLSet = TRUE]

\* an index the slice has
InRange(s, i) == 0 <= i /\ i < Len(s)

SortedInPlace(times) == IF Len(times) < 1 THEN times ELSE SortAsc(times)

\* variant: the attempt is not counted
RecordRequest_Dropped(st) == st
RecordRequest(st) == [st EXCEPT !.Requests = @ + 1]
\* variant: a success is counted as a request as well
RecordSuccess_AlsoRequest(st) ==
    [st EXCEPT !.Successes = @ + 1, !.Requests = @ + 1]
RecordSuccess(st) == [st EXCEPT !.Successes = @ + 1]

\* variant: the failure is added to the wrong counter
RecordFailure_WrongCounter(st) == [st EXCEPT !.Requests = @ + 1]
RecordFailure(st) == [st EXCEPT !.Failures = @ + 1]

\* variant: the new sample is put in front of the collection
RecordTime_Prepend(times, executionTime) == <<executionTime>> \o times
\* variant: the sample is thrown away
RecordTime_Skipped(times, executionTime) == times
RecordTime(times, executionTime) == Append(times, executionTime)

\* variant: Lock returns although another goroutine holds the mutex
LockReady_NoBlock(holder) == TRUE
LockReady(holder) == holder = 0

\* variant: the mutex is not released when the Record function returns
Unlock_Kept(holder) == holder
\* the deferred mu.Unlock()
Unlock(holder) == 0
\* variant: wg.Add(1) instead of wg.Add(t.Concurrency())
WgAdd_One(c, n) == c + 1
WgAdd(c, n) == c + n

\* variant: a worker leaves without wg.Done()
WgDoneCount_Missing(c) == c
WgDoneCount(c) == c - 1
WgWaitReady(c) == c = 0

\* variant: the producer stops one unit early
ProducerMore_Short(x, n) == x < n - 1
\* variant: the producer sends one unit too many
ProducerMore_Extra(x, n) == x <= n
ProducerMore(x, n) == x < n

\* variant: one worker too many is started
SpawnMore_Extra(x, c) == x <= c
SpawnMore(x, c) == x < c

\* variant: the error of http.NewRequest is ignored
NewRequestFails_Ignored(valid) == FALSE
NewRequestFails(valid) == ~valid

\* variant: the sample is recorded before the error of client.Do is looked at
CallErrored_Late(r) == FALSE
CallErrored(r) == r.err

\* variant: only server errors count as failures
StatusNotOK_ServerOnly(r) == r.status >= 500
StatusNotOK(r) == r.status # StatusOK

(* ---- initial state: the Tester NewTester returned ---- *)

\* every field NewTester sets that is neither configuration nor the samples
NewTesterIdle ==
    /\ mainpc = "start"
    /\ result = "none"
    /\ stdout = <<>>
    /\ wg = 0
    /\ ppc = "idle"
    /\ px = 0
    /\ spc = "idle"
    /\ sx = 0
    /\ wpc = [w \in Workers |-> "idle"]
    /\ cur = [w \in Workers |-> 0]
    /\ res = [w \in Workers |-> NoResult]
    /\ elapsed = [w \in Workers |-> 0]
    /\ mu = 0
    /\ tmu = 0
    /\ stats = ZeroStats
    /\ unit = [x \in Units |-> "Pending"]
    /\ resp = [x \in Units |-> NoResult]
    /\ tally = [x \in Units |-> ZeroTally]

NewTesterState == NewTesterIdle /\ ExecutionsTime = <<>>

\* nothing but Run is called on the Tester
RecorderUnused ==
    /\ revision = 2
    /\ local = [w \in Workers |-> NoCall]
    /\ issued = ZeroIssued

MetricsUnused ==
    /\ mstats = ZeroMetrics
    /\ ret = NoReturn

CompareUnused == cmp = NoCompare

ConstructUnused == ctor = NoCtor
CLIUnused == cli = NoCLI
CodecUnused == codec = NoCodec
EarlyUnused == early = NoEarly
LaterUnused == ConstructUnused /\ CLIUnused /\ CodecUnused /\ EarlyUnused

Init ==
    /\ requests \in 1..MaxRequests
    /\ concurrency \in 1..MaxConcurrency
    /\ methodValid \in BOOLEAN
    /\ NewTesterState
    /\ RecorderUnused
    /\ MetricsUnused
    /\ CompareUnused
    /\ LaterUnused

cfg == <<requests, concurrency, methodValid>>
mainv == <<mainpc, result, stdout>>
prodv == <<ppc, px>>
spawnv == <<spc, sx>>
hist == <<unit, resp, tally>>

(* ---- Run: the caller ---- *)

\* wg.Add, go producer, startAt, go spawner
RunStart ==
    /\ mainpc = "start"
    /\ wg' = WgAdd(wg, concurrency)
    /\ ppc' = "loop"
    /\ spc' = "loop"
    /\ mainpc' = "wait"
    /\ UNCHANGED <<aux, cfg, result, stdout, px, sx, wpc, cur, res, elapsed, mu,
                   tmu, stats, ExecutionsTime, hist>>

\* t.wg.Wait() returns
WgWait ==
    /\ mainpc = "wait"
    /\ WgWaitReady(wg)
    /\ mainpc' = "calc"
    /\ UNCHANGED <<aux, cfg, result, stdout, wg, prodv, spawnv, wpc, cur, res,
                   elapsed, mu, tmu, stats, ExecutionsTime, hist>>

\* t.endAt = ...; t.CalculatePercentiles()
RunCalculate ==
    /\ mainpc = "calc"
    /\ stats' = CalculatePercentiles(stats, ExecutionsTime)
    /\ ExecutionsTime' = SortedInPlace(ExecutionsTime)
    /\ mainpc' = "report"
    /\ UNCHANGED <<aux, cfg, result, stdout, wg, prodv, spawnv, wpc, cur, res,
                   elapsed, mu, tmu, hist>>

\* if t.Graphs() { Boxplot; Histogram }; Fprintln(t.stdout, t.stats); return.
\* t.graphs is read nowhere else, so its value is drawn here together with the
\* outcome of writing the two image files.
RunReport ==
    /\ mainpc = "report"
    /\ \E graphs, graphErr \in BOOLEAN :
          IF graphs /\ graphErr
          THEN result' = "err" /\ stdout' = stdout
          ELSE result' = "nil" /\ stdout' = Append(stdout, stats)
    /\ mainpc' = "done"
    /\ UNCHANGED <<aux, cfg, wg, prodv, spawnv, wpc, cur, res, elapsed, mu, tmu,
                   stats, ExecutionsTime, hist>>

(* ---- the goroutine that starts the workers ---- *)

Spawn ==
    /\ spc = "loop"
    /\ SpawnMore(sx, concurrency)
    /\ wpc' = [wpc EXCEPT ![sx + 1] = "recv"]
    /\ sx' = sx + 1
    /\ UNCHANGED <<aux, cfg, mainv, wg, prodv, spc, cur, res, elapsed, mu, tmu,
                   stats, ExecutionsTime, hist>>

SpawnerExit ==
    /\ spc = "loop"
    /\ ~SpawnMore(sx, concurrency)
    /\ spc' = "done"
    /\ UNCHANGED <<aux, cfg, mainv, wg, prodv, sx, wpc, cur, res, elapsed, mu, tmu,
                   stats, ExecutionsTime, hist>>

(* ---- the producer and the unbuffered work channel ---- *)

\* t.work <- struct{}{} meets a worker's receive in `for range t.work`
Handoff(w) ==
    /\ ppc = "loop"
    /\ ProducerMore(px, requests)
    /\ wpc[w] = "recv"
    /\ px' = px + 1
    /\ cur' = [cur EXCEPT ![w] = px + 1]
    /\ unit' = [unit EXCEPT ![px + 1] = "InFlight"]
    /\ wpc' = [wpc EXCEPT ![w] = "recordRequest"]
    /\ UNCHANGED <<aux, cfg, mainv, wg, ppc, spawnv, res, elapsed, mu, tmu, stats,
                   ExecutionsTime, resp, tally>>

\* close(t.work)
CloseWork ==
    /\ ppc = "loop"
    /\ ~ProducerMore(px, requests)
    /\ ppc' = "closed"
    /\ UNCHANGED <<aux, cfg, mainv, wg, px, spawnv, wpc, cur, res, elapsed, mu, tmu,
                   stats, ExecutionsTime, hist>>

(* ---- a worker: DoRequest, then wg.Done ---- *)

\* the range loop ends on the closed channel
RecvClosed(w) ==
    /\ wpc[w] = "recv"
    /\ ppc = "closed"
    /\ wpc' = [wpc EXCEPT ![w] = "wgDone"]
    /\ UNCHANGED <<aux, cfg, mainv, wg, prodv, spawnv, cur, res, elapsed, mu, tmu,
                   stats, ExecutionsTime, hist>>

\* t.mu.Lock() of RecordRequest, RecordSuccess and RecordFailure
LockMu(w) ==
    /\ wpc[w] \in {"recordRequest", "recordSuccess", "recordFailure"}
    /\ mu = 0
    /\ mu' = w
    /\ wpc' = [wpc EXCEPT ![w] =
                  CASE wpc[w] = "recordRequest" -> "inRecordRequest"
                    [] wpc[w] = "recordSuccess" -> "inRecordSuccess"
                    [] wpc[w] = "recordFailure" -> "inRecordFailure"]
    /\ UNCHANGED <<aux, cfg, mainv, wg, prodv, spawnv, cur, res, elapsed, tmu,
                   stats, ExecutionsTime, hist>>

\* t.stats.Requests++ and the deferred Unlock
DoRecordRequest(w) ==
    /\ wpc[w] = "inRecordRequest"
    /\ mu = w
    /\ stats' = RecordRequest(stats)
    /\ mu' = Unlock(mu)
    /\ tally' = [tally EXCEPT ![cur[w]].req =
                    @ + (stats'.Requests - stats.Requests)]
    /\ wpc' = [wpc EXCEPT ![w] = "newRequest"]
    /\ UNCHANGED <<aux, cfg, mainv, wg, prodv, spawnv, cur, res, elapsed, tmu,
                   ExecutionsTime, unit, resp>>

\* http.NewRequest, the headers, startTime and the start of client.Do
NewRequest(w) ==
    /\ wpc[w] = "newRequest"
    /\ IF NewRequestFails(methodValid)
       THEN /\ wpc' = [wpc EXCEPT ![w] = "recordFailure"]
            /\ tally' = tally
       ELSE /\ wpc' = [wpc EXCEPT ![w] = "do"]
            /\ tally' = [tally EXCEPT ![cur[w]].calls = @ + 1]
    /\ UNCHANGED <<aux, cfg, mainv, wg, prodv, spawnv, cur, res, elapsed, mu, tmu,
                   stats, ExecutionsTime, unit, resp>>

\* client.Do returns; elapsedTime is read only when err is nil
ClientDo(w) ==
    /\ wpc[w] = "do"
    /\ \E r \in CallResults :
          /\ res' = [res EXCEPT ![w] = r]
          /\ resp' = [resp EXCEPT ![cur[w]] = r]
          /\ IF CallErrored(r)
             THEN /\ wpc' = [wpc EXCEPT ![w] = "recordFailure"]
                  /\ elapsed' = elapsed
             ELSE /\ wpc' = [wpc EXCEPT ![w] = "recordTime"]
                  /\ \E e \in Latencies : elapsed' = [elapsed EXCEPT ![w] = e]
    /\ UNCHANGED <<aux, cfg, mainv, wg, prodv, spawnv, cur, mu, tmu, stats,
                   ExecutionsTime, unit, tally>>

\* t.TimeRecorder.mu.Lock()
LockTimeRecorder(w) ==
    /\ wpc[w] = "recordTime"
    /\ tmu = 0
    /\ tmu' = w
    /\ wpc' = [wpc EXCEPT ![w] = "inRecordTime"]
    /\ UNCHANGED <<aux, cfg, mainv, wg, prodv, spawnv, cur, res, elapsed, mu, stats,
                   ExecutionsTime, hist>>

\* the append, the deferred Unlock and the status check that follows
DoRecordTime(w) ==
    /\ wpc[w] = "inRecordTime"
    /\ tmu = w
    /\ ExecutionsTime' = RecordTime(ExecutionsTime, elapsed[w])
    /\ tmu' = Unlock(tmu)
    /\ tally' = [tally EXCEPT ![cur[w]].samples =
                    @ + (Len(ExecutionsTime') - Len(ExecutionsTime))]
    /\ wpc' = [wpc EXCEPT ![w] =
                  IF StatusNotOK(res[w]) THEN "recordFailure"
                  ELSE "recordSuccess"]
    /\ UNCHANGED <<aux, cfg, mainv, wg, prodv, spawnv, cur, res, elapsed, mu, stats,
                   unit, resp>>

\* t.stats.Successes++, Unlock, and back to the range loop
DoRecordSuccess(w) ==
    /\ wpc[w] = "inRecordSuccess"
    /\ mu = w
    /\ stats' = RecordSuccess(stats)
    /\ mu' = Unlock(mu)
    /\ tally' = [tally EXCEPT ![cur[w]].succ =
                    @ + (stats'.Successes - stats.Successes)]
    /\ unit' = [unit EXCEPT ![cur[w]] = "Succeeded"]
    /\ cur' = [cur EXCEPT ![w] = 0]
    /\ res' = [res EXCEPT ![w] = NoResult]
    /\ elapsed' = [elapsed EXCEPT ![w] = 0]
    /\ wpc' = [wpc EXCEPT ![w] = "recv"]
    /\ UNCHANGED <<aux, cfg, mainv, wg, prodv, spawnv, tmu, ExecutionsTime, resp>>

\* t.stats.Failures++, Unlock, and the return that leaves DoRequest
DoRecordFailure(w) ==
    /\ wpc[w] = "inRecordFailure"
    /\ mu = w
    /\ stats' = RecordFailure(stats)
    /\ mu' = Unlock(mu)
    /\ tally' = [tally EXCEPT ![cur[w]].fail =
                    @ + (stats'.Failures - stats.Failures)]
    /\ unit' = [unit EXCEPT ![cur[w]] = "Failed"]
    /\ cur' = [cur EXCEPT ![w] = 0]
    /\ res' = [res EXCEPT ![w] = NoResult]
    /\ elapsed' = [elapsed EXCEPT ![w] = 0]
    /\ wpc' = [wpc EXCEPT ![w] = "wgDone"]
    /\ UNCHANGED <<aux, cfg, mainv, wg, prodv, spawnv, tmu, ExecutionsTime, resp>>

\* t.wg.Done()
WgDone(w) ==
    /\ wpc[w] = "wgDone"
    /\ wg' = WgDoneCount(wg)
    /\ wpc' = [wpc EXCEPT ![w] = "exited"]
    /\ UNCHANGED <<aux, cfg, mainv, prodv, spawnv, cur, res, elapsed, mu, tmu,
                   stats, ExecutionsTime, hist>>

Worker(w) ==
    \/ Handoff(w)
    \/ RecvClosed(w)
    \/ LockMu(w)
    \/ DoRecordRequest(w)
    \/ NewRequest(w)
    \/ ClientDo(w)
    \/ LockTimeRecorder(w)
    \/ DoRecordTime(w)
    \/ DoRecordSuccess(w)
    \/ DoRecordFailure(w)
    \/ WgDone(w)

Next ==
    \/ RunStart
    \/ WgWait
    \/ RunCalculate
    \/ RunReport
    \/ Spawn
    \/ SpawnerExit
    \/ CloseWork
    \/ \E w \in Workers : Worker(w)

Spec == Init /\ [][Next]_vars

\* every goroutine keeps running and every HTTP call returns
FairSpec ==
    /\ Spec
    /\ WF_vars(RunStart \/ WgWait \/ RunCalculate \/ RunReport)
    /\ WF_vars(Spawn \/ SpawnerExit)
    /\ WF_vars(CloseWork)
    /\ \A w \in Workers : WF_vars(Worker(w))


(* ---- the Record functions called directly by concurrent goroutines ---- *)

CounterOps == {"Request", "Success", "Failure"}
RecordOps == CounterOps \cup {"Time"}
runRest == <<cfg, mainv, wg, prodv, spawnv, cur, res, elapsed, hist>>
otherAux == <<mstats, ret, cmp, later>>

RecorderInit ==
    /\ requests = 1
    /\ concurrency = 1
    /\ methodValid = TRUE
    /\ NewTesterState
    /\ revision \in {1, 2}
    /\ local = [w \in Workers |-> NoCall]
    /\ issued = ZeroIssued
    /\ MetricsUnused
    /\ CompareUnused
    /\ LaterUnused

TotalIssued == issued.req + issued.succ + issued.fail + Len(issued.times)

Issue(h, w, op, v) ==
    CASE op = "Request" -> [h EXCEPT !.req = @ + 1]
      [] op = "Success" -> [h EXCEPT !.succ = @ + 1]
      [] op = "Failure" -> [h EXCEPT !.fail = @ + 1]
      [] op = "Time" -> [h EXCEPT !.times = Append(@, [by |-> w, v |-> v])]

CounterOf(st, op) ==
    CASE op = "Request" -> st.Requests
      [] op = "Success" -> st.Successes
      [] op = "Failure" -> st.Failures

\* the increment applied to the value the caller read
StoreCounter(st, op, v) ==
    CASE op = "Request" -> RecordRequest([st EXCEPT !.Requests = v])
      [] op = "Success" -> RecordSuccess([st EXCEPT !.Successes = v])
      [] op = "Failure" -> RecordFailure([st EXCEPT !.Failures = v])

\* atomic.AddUint64 on the counter itself
AtomicCounter(st, op) == StoreCounter(st, op, CounterOf(st, op))

\* a goroutine calls RecordRequest, RecordSuccess, RecordFailure or RecordTime
RecCall(w) ==
    /\ wpc[w] = "idle"
    /\ TotalIssued < MaxCalls
    /\ \E op \in RecordOps :
       \E v \in (IF op = "Time" THEN Samples ELSE {0}) :
          /\ local' = [local EXCEPT ![w] = [op |-> op, arg |-> v, val |-> 0]]
          /\ issued' = Issue(issued, w, op, v)
          /\ wpc' = [wpc EXCEPT ![w] =
                        IF revision = 1 /\ op \in CounterOps THEN "atomic"
                        ELSE "lock"]
    /\ UNCHANGED <<runRest, otherAux, revision, mu, tmu, stats, ExecutionsTime>>

\* first revision: atomic.AddUint64(&t.stats.X, 1)
RecAtomicAdd(w) ==
    /\ wpc[w] = "atomic"
    /\ stats' = AtomicCounter(stats, local[w].op)
    /\ wpc' = [wpc EXCEPT ![w] = "idle"]
    /\ local' = [local EXCEPT ![w] = NoCall]
    /\ UNCHANGED <<runRest, otherAux, revision, issued, mu, tmu, ExecutionsTime>>

\* mu.Lock()
RecLock(w) ==
    /\ wpc[w] = "lock"
    /\ IF local[w].op = "Time"
       THEN LockReady(tmu) /\ tmu' = w /\ mu' = mu
       ELSE LockReady(mu) /\ mu' = w /\ tmu' = tmu
    /\ wpc' = [wpc EXCEPT ![w] = "load"]
    /\ UNCHANGED <<runRest, otherAux, revision, local, issued, stats,
                   ExecutionsTime>>

\* the read of t.stats.X in X++, of t.ExecutionsTime in append
RecLoad(w) ==
    /\ wpc[w] = "load"
    /\ local' = [local EXCEPT ![w].val =
                    IF local[w].op = "Time" THEN ExecutionsTime
                    ELSE CounterOf(stats, local[w].op)]
    /\ wpc' = [wpc EXCEPT ![w] = "store"]
    /\ UNCHANGED <<runRest, otherAux, revision, issued, mu, tmu, stats,
                   ExecutionsTime>>

\* the write, then the deferred Unlock
RecStore(w) ==
    /\ wpc[w] = "store"
    /\ IF local[w].op = "Time"
       THEN /\ ExecutionsTime' = RecordTime(local[w].val, local[w].arg)
            /\ tmu' = 0
            /\ UNCHANGED <<stats, mu>>
       ELSE /\ stats' = StoreCounter(stats, local[w].op, local[w].val)
            /\ mu' = 0
            /\ UNCHANGED <<ExecutionsTime, tmu>>
    /\ wpc' = [wpc EXCEPT ![w] = "idle"]
    /\ local' = [local EXCEPT ![w] = NoCall]
    /\ UNCHANGED <<runRest, otherAux, revision, issued>>

RecorderNext ==
    \E w \in Callers :
        \/ RecCall(w)
        \/ RecAtomicAdd(w)
        \/ RecLock(w)
        \/ RecLoad(w)
        \/ RecStore(w)

RecorderSpec == RecorderInit /\ [][RecorderNext]_vars


(* ---- the metric computations applied to a given sample collection ---- *)

\* variant: the guard lets an empty collection through
NoTimes_Never(times) == Len(times) < 0
NoTimes(times) == Len(times) < 1

\* variant: the comparisons are the wrong way round
FastestSlowestStep_Swapped(st, v) ==
    IF v > st.Fastest THEN [st EXCEPT !.Fastest = v]
    ELSE IF v < st.Slowest THEN [st EXCEPT !.Slowest = v]
    ELSE st
\* one iteration of the loop of SetFastestAndSlowest
FastestSlowestStep(st, v) ==
    IF v < st.Fastest THEN [st EXCEPT !.Fastest = v]
    ELSE IF v > st.Slowest THEN [st EXCEPT !.Slowest = v]
    ELSE st

RECURSIVE FastestSlowestLoop(_, _)
FastestSlowestLoop(st, times) ==
    IF times = <<>> THEN st
    ELSE FastestSlowestLoop(FastestSlowestStep(st, Head(times)), Tail(times))

SetFastestAndSlowest(st, times) ==
    IF ~InRange(times, 0) THEN [err |-> "panic", stats |-> st]
    ELSE [err |-> "nil",
          stats |-> FastestSlowestLoop(
                        [st EXCEPT !.Fastest = At(times, 0),
                                   !.Slowest = At(times, 0)], times)]

\* variant: totalTime = v in place of totalTime += v
MetricsStep_Assigns(acc, v) ==
    LET a == [acc EXCEPT !.nreq = @ + 1, !.totalTime = v]
    IN IF v < a.Fastest THEN [a EXCEPT !.Fastest = v]
       ELSE IF v > a.Slowest THEN [a EXCEPT !.Slowest = v]
       ELSE a
\* one iteration of the loop of SetMetrics
MetricsStep(acc, v) ==
    LET a == [acc EXCEPT !.nreq = @ + 1, !.totalTime = @ + v]
    IN IF v < a.Fastest THEN [a EXCEPT !.Fastest = v]
       ELSE IF v > a.Slowest THEN [a EXCEPT !.Slowest = v]
       ELSE a

RECURSIVE MetricsLoop(_, _)
MetricsLoop(acc, times) ==
    IF times = <<>> THEN acc
    ELSE MetricsLoop(MetricsStep(acc, Head(times)), Tail(times))

SetMetrics(st, times) ==
    IF NoTimes(times) THEN [err |-> "ErrTimeNotRecorded", stats |-> st,
                            times |-> times]
    ELSE
      LET sorted == SortAsc(times)
          perc90Index == PercentileIdx(Len(times), 9, 10)
          perc99Index == PercentileIdx(Len(times), 99, 100)
      IN IF ~InRange(sorted, perc90Index)
         THEN [err |-> "panic", stats |-> st, times |-> sorted]
         ELSE IF ~InRange(sorted, perc99Index)
         THEN [err |-> "panic",
               stats |-> [st EXCEPT !.Perc90 = At(sorted, perc90Index)],
               times |-> sorted]
         ELSE
           LET acc == MetricsLoop([nreq |-> 0, totalTime |-> 0,
                                   Fastest |-> At(sorted, 0),
                                   Slowest |-> At(sorted, 0)], sorted)
           IN [err |-> "nil",
               stats |-> [Perc90 |-> At(sorted, perc90Index),
                          Perc99 |-> At(sorted, perc99Index),
                          Fastest |-> acc.Fastest,
                          Slowest |-> acc.Slowest,
                          Mean |-> Quotient(acc.totalTime, acc.nreq)],
               times |-> sorted]

\* an index expression of CalculatePercentiles that is outside the slice
PercentilesPanic(times) ==
    /\ Len(times) >= 1
    /\ \/ ~InRange(times, PercentileIdx(Len(times), 50, 100))
       \/ ~InRange(times, PercentileIdx(Len(times), 90, 100))
       \/ ~InRange(times, PercentileIdx(Len(times), 99, 100))

BoundedSamples == UNION {[1..n -> Samples] : n \in 0..MaxSamples}
Ramps == {[i \in 1..n |-> n + 1 - i] : n \in 1..MaxCount}
TestSamples == {<<5, 6, 7, 8, 10, 11, 13>>, <<50, 100, 200, 100, 50>>,
                <<100, 200, 100, 50>>}
MetricsInputs == BoundedSamples \cup Ramps \cup TestSamples

\* statistics left by an earlier computation
PrevMetrics == {ZeroMetrics,
                [Perc90 |-> 2, Perc99 |-> 2, Fastest |-> 1, Slowest |-> 2,
                 Mean |-> Quotient(3, 2)]}

MetricsInit ==
    /\ requests = 1
    /\ concurrency = 1
    /\ methodValid = TRUE
    /\ NewTesterIdle
    /\ ExecutionsTime \in MetricsInputs
    /\ RecorderUnused
    /\ mstats \in PrevMetrics
    /\ ret = NoReturn
    /\ CompareUnused
    /\ LaterUnused

metricsRest == <<cfg, mainv, wg, prodv, spawnv, wpc, cur, res, elapsed, mu,
                 tmu, hist, revision, local, issued, cmp, later>>

CallSetMetrics ==
    /\ ret.fn = "none"
    /\ LET r == SetMetrics(mstats, ExecutionsTime)
       IN /\ ret' = [fn |-> "SetMetrics", err |-> r.err]
          /\ mstats' = r.stats
          /\ ExecutionsTime' = r.times
    /\ UNCHANGED <<metricsRest, stats>>

CallSetFastestAndSlowest ==
    /\ ret.fn = "none"
    /\ LET r == SetFastestAndSlowest(mstats, ExecutionsTime)
       IN /\ ret' = [fn |-> "SetFastestAndSlowest", err |-> r.err]
          /\ mstats' = r.stats
    /\ UNCHANGED <<metricsRest, stats, ExecutionsTime>>

CallCalculatePercentiles ==
    /\ ret.fn = "none"
    /\ IF PercentilesPanic(ExecutionsTime)
       THEN /\ ret' = [fn |-> "CalculatePercentiles", err |-> "panic"]
            /\ stats' = stats
       ELSE /\ ret' = [fn |-> "CalculatePercentiles", err |-> "nil"]
            /\ stats' = CalculatePercentiles(stats, ExecutionsTime)
    /\ ExecutionsTime' = SortedInPlace(ExecutionsTime)
    /\ UNCHANGED <<metricsRest, mstats>>

MetricsNext ==
    \/ CallSetMetrics
    \/ CallSetFastestAndSlowest
    \/ CallCalculatePercentiles

MetricsSpec == MetricsInit /\ [][MetricsNext]_vars


(* ---- the comparison of two statistics records ---- *)

\* variant: the old value is taken as the new one
Delta_Swapped(old, new) == old - new
\* p50Delta := cs.S2.P50 - cs.S1.P50
Delta(old, new) == new - old

\* a / b to the nearest integer, b > 0, halves away from zero
RoundDiv(a, b) ==
    IF a >= 0 THEN (2 * a + b) \div (2 * b)
    ELSE -((2 * (-a) + b) \div (2 * b))

\* %.3f of a whole number of milliseconds, in thousandths
Thousandths(x) == x * 1000

\* %.2f of delta / old * 100, in hundredths; a float64 division by zero gives an
\* infinity, or NaN for 0 / 0, and fmt prints them as such
Percentage(delta, old) ==
    IF old = 0
    THEN [kind |-> IF delta > 0 THEN "+Inf"
                   ELSE IF delta < 0 THEN "-Inf" ELSE "NaN",
          hundredths |-> 0]
    ELSE [kind |-> "num", hundredths |-> RoundDiv(delta * 100 * 100, old)]

Row(metric, old, new) ==
    [metric |-> metric,
     old |-> Thousandths(old),
     new |-> Thousandths(new),
     delta |-> Thousandths(Delta(old, new)),
     pct |-> Percentage(Delta(old, new), old)]

\* CompareStats.String: one row each for P50, P90 and P99
String(s1, s2) ==
    <<Row("P50", s1.P50, s2.P50),
      Row("P90", s1.P90, s2.P90),
      Row("P99", s1.P99, s2.P99)>>

Metrics == 0..MaxMetric
ReadableStats ==
    {[ZeroStats EXCEPT !.URLSet = u, !.P50 = a, !.P90 = b, !.P99 = c] :
        u \in BOOLEAN, a \in Metrics, b \in Metrics, c \in Metrics}
OldExample == [ZeroStats EXCEPT !.URLSet = TRUE, !.P50 = 100, !.P90 = 110,
                                !.P99 = 120]
NewExample == [ZeroStats EXCEPT !.URLSet = TRUE, !.P50 = 99, !.P90 = 100,
                                !.P99 = 101]
StatsPairs == (ReadableStats \X ReadableStats) \cup {<<OldExample, NewExample>>}

CompareInit ==
    /\ requests = 1
    /\ concurrency = 1
    /\ methodValid = TRUE
    /\ NewTesterState
    /\ RecorderUnused
    /\ MetricsUnused
    /\ \E pair \in StatsPairs :
          cmp = [NoCompare EXCEPT !.s1 = pair[1], !.s2 = pair[2]]
    /\ LaterUnused

compareRest == <<cfg, mainpc, result, wg, prodv, spawnv, wpc, cur, res, elapsed, mu,
                 tmu, stats, ExecutionsTime, hist, revision, local, issued,
                 mstats, ret, later>>

CMPWriters == {"nil", "buffer"}
CMPOptions == {[name |-> n, arg |-> w] :
                  n \in {"WithCMPStdout", "WithCMPStderr"}, w \in CMPWriters}
\* the option lists passed: none, one option, or two different ones
CMPOptionLists ==
    {<<>>} \cup {<<o>> : o \in CMPOptions}
           \cup {pair \in CMPOptions \X CMPOptions :
                      pair[1].name # pair[2].name}

WithCMPStdout(cs, w) ==
    IF w = "nil" THEN [cs EXCEPT !.err = "ErrValueCannotBeNil"]
    ELSE [cs EXCEPT !.Stdout = w]
WithCMPStderr(cs, w) ==
    IF w = "nil" THEN [cs EXCEPT !.err = "ErrValueCannotBeNil"]
    ELSE [cs EXCEPT !.Stderr = w]

\* for _, o := range opts; the first error ends the loop with nil, err
RECURSIVE ApplyCMPOptions(_, _)
ApplyCMPOptions(cs, opts) ==
    IF opts = <<>> THEN [cs EXCEPT !.err = "nil", !.made = TRUE]
    ELSE LET o == Head(opts)
             next == IF o.name = "WithCMPStdout" THEN WithCMPStdout(cs, o.arg)
                     ELSE WithCMPStderr(cs, o.arg)
         IN IF next.err # "none"
            THEN [cs EXCEPT !.err = next.err, !.Stdout = "", !.Stderr = "",
                            !.S1 = ZeroStats, !.S2 = ZeroStats]
            ELSE ApplyCMPOptions(next, Tail(opts))

\* variant: only the first record is tested
EitherEmpty_FirstOnly(s1, s2) == s1 = ZeroStats
\* s1 == (Stats{}) || s2 == (Stats{})
EitherEmpty(s1, s2) == s1 = ZeroStats \/ s2 = ZeroStats

NewCompareStats(cs, opts) ==
    IF EitherEmpty(cs.s1, cs.s2)
    THEN [cs EXCEPT !.opts = opts, !.err = "ErrEmptyStats"]
    ELSE ApplyCMPOptions([cs EXCEPT !.opts = opts, !.S1 = cs.s1,
                                    !.S2 = cs.s2, !.Stdout = "os.Stdout",
                                    !.Stderr = "os.Stderr"], opts)

\* NewCompareStats(s1, s2, opts...)
CallNewCompareStats ==
    /\ ~cmp.made
    /\ cmp.err = "none"
    /\ \E opts \in CMPOptionLists : cmp' = NewCompareStats(cmp, opts)
    /\ UNCHANGED <<compareRest, stdout>>

\* CMPRun after both files were read: the literal CompareStats{S1, S2} is
\* printed to w, which calls String; CMPRun returns nil
CMPRun ==
    /\ ~cmp.made
    /\ cmp.err = "none"
    /\ stdout' = Append(stdout, String(cmp.s1, cmp.s2))
    /\ cmp' = [cmp EXCEPT !.err = "nil"]
    /\ UNCHANGED compareRest

\* String on a CompareStats that NewCompareStats returned
CallString ==
    /\ cmp.made
    /\ cmp.out = <<>>
    /\ cmp' = [cmp EXCEPT !.out = String(cmp.S1, cmp.S2)]
    /\ UNCHANGED <<compareRest, stdout>>

CompareNext ==
    \/ CallNewCompareStats
    \/ CMPRun
    \/ CallString

CompareSpec == CompareInit /\ [][CompareNext]_vars


(* ---- NewTester and its functional options ---- *)

DefaultOutputPath == "./"

\* a URL string, cut at its ':' and '/' characters
FakeURL == <<"http", ":", "/", "/", "fake.url">>
URLs == {<<"bogus-no-scheme-or-domain">>,
         <<"bogus-no-host", ":", "/", "/">>,
         <<"bogus-no-scheme.fake">>,
         <<"/", "/", "host">>,
         <<":", "bad">>,
         FakeURL}

IsName(tok) == tok \notin {":", "/"}

\* url.Parse: the scheme is the name before the first ':', a leading ':' is an
\* error; the host is what follows "//", except after three slashes without a
\* scheme
ParseURL(u) ==
    IF u # <<>> /\ u[1] = ":"
    THEN [err |-> TRUE, Scheme |-> "", Host |-> ""]
    ELSE
      LET hasScheme == Len(u) >= 2 /\ IsName(u[1]) /\ u[2] = ":"
          scheme == IF hasScheme THEN u[1] ELSE ""
          rest == IF hasScheme THEN SubSeq(u, 3, Len(u)) ELSE u
          slashes == Len(rest) >= 2 /\ rest[1] = "/" /\ rest[2] = "/"
          three == Len(rest) >= 3 /\ slashes /\ rest[3] = "/"
          authority == slashes /\ (scheme # "" \/ ~three)
      IN [err |-> FALSE,
          Scheme |-> scheme,
          Host |-> IF authority /\ Len(rest) >= 3 /\ IsName(rest[3])
                   THEN rest[3] ELSE ""]

\* if u.Host == ""
URLInvalid(u) == u.Host = ""

\* variant: zero requests pass the check
RequestsInvalid_ZeroAllowed(n) == n < 0
\* if tester.requests < 1
RequestsInvalid(n) == n < 1

\* variant: the writer is stored without the nil check
WriterIsNil_Unchecked(w) == FALSE
\* if w == nil
WriterIsNil(w) == w = "nil"

Writers == {"nil", "buffer"}
RequestArgs == (-1)..MaxRequests
ConcurrencyArgs == (-1)..MaxConcurrency

\* argument lists given to FromArgs
FlagLists == {<<>>,
              <<"-r", "10">>,
              <<"-u", "http://fake.url">>,
              <<"-r", "10", "-u", "http://fake.url">>,
              <<"-c", "2", "-g", "-m", "post", "-b", "data">>,
              <<"-r", "many">>,
              <<"-r">>,
              <<"-x">>}

OptionNames == {"WithURL", "WithRequests", "WithConcurrency", "WithStdout",
                "WithStderr", "WithGraphs", "WithHTTPMethod", "WithBody",
                "FromArgs"}
ArgsOf(name) ==
    CASE name = "WithURL" -> URLs
      [] name = "WithRequests" -> RequestArgs
      [] name = "WithConcurrency" -> ConcurrencyArgs
      [] name = "WithStdout" -> Writers
      [] name = "WithStderr" -> Writers
      [] name = "WithGraphs" -> {TRUE}
      [] name = "WithHTTPMethod" -> {"post"}
      [] name = "WithBody" -> {"data"}
      [] name = "FromArgs" -> FlagLists

\* variant: the value is stored in the requests field
WithConcurrency_SetsRequests(t, c) == [t EXCEPT !.requests = c]
WithConcurrency(t, c) == [t EXCEPT !.concurrency = c]

WithRequests(t, reqs) == [t EXCEPT !.requests = reqs]
WithURL(t, URL) == [t EXCEPT !.URL = URL]
WithGraphs(t, graphs) == [t EXCEPT !.graphs = graphs]
WithStdout(t, w) ==
    IF WriterIsNil(w) THEN [t EXCEPT !.err = "ErrValueCannotBeNil"]
    ELSE [t EXCEPT !.stdout = w]
WithStderr(t, w) ==
    IF WriterIsNil(w) THEN [t EXCEPT !.err = "ErrValueCannotBeNil"]
    ELSE [t EXCEPT !.stderr = w]

\* strings.ToUpper on the method names used here
ToUpper(str) == CASE str = "post" -> "POST" [] OTHER -> str

WithHTTPMethod(t, method) == [t EXCEPT !.httpMethod = ToUpper(method)]
WithBody(t, body) == [t EXCEPT !.body = body]

\* the flags FromArgs defines, and their default values
DefinedFlags == {"-b", "-c", "-g", "-m", "-r", "-u"}
FlagDefaults == [err |-> "none", b |-> "", c |-> 1, g |-> FALSE, m |-> "GET",
                 r |-> 1, u |-> ""]

\* the conversion of an integer flag's value
Numerals == ("2" :> 2) @@ ("10" :> 10)
ParseInt(str) ==
    IF str \in DOMAIN Numerals THEN [err |-> FALSE, v |-> Numerals[str]]
    ELSE [err |-> TRUE, v |-> 0]

\* a URL string as the pieces url.Parse looks at
URLTokens(str) ==
    CASE str = "" -> <<>>
      [] str = "http://fake.url" -> FakeURL
      [] OTHER -> <<str>>

\* fs.Parse(args): -g is a boolean flag, every other flag takes the next word
RECURSIVE ParseFlags(_, _)
ParseFlags(f, args) ==
    IF args = <<>> THEN f
    ELSE IF Head(args) \notin DefinedFlags
    THEN [f EXCEPT !.err = "flag provided but not defined"]
    ELSE IF Head(args) = "-g" THEN ParseFlags([f EXCEPT !.g = TRUE], Tail(args))
    ELSE IF Len(args) < 2 THEN [f EXCEPT !.err = "flag needs an argument"]
    ELSE
      LET name == args[1]
          value == args[2]
          rest == SubSeq(args, 3, Len(args))
          int == ParseInt(value)
      IN CASE name = "-b" -> ParseFlags([f EXCEPT !.b = value], rest)
           [] name = "-m" -> ParseFlags([f EXCEPT !.m = value], rest)
           [] name = "-u" -> ParseFlags([f EXCEPT !.u = value], rest)
           [] name = "-c" ->
                IF int.err THEN [f EXCEPT !.err = "invalid value"]
                ELSE ParseFlags([f EXCEPT !.c = int.v], rest)
           [] name = "-r" ->
                IF int.err THEN [f EXCEPT !.err = "invalid value"]
                ELSE ParseFlags([f EXCEPT !.r = int.v], rest)

\* every field a flag stands for is assigned from the flag set
FromArgs(t, args) ==
    IF Len(args) < 1 THEN [t EXCEPT !.err = "ErrNoArgs"]
    ELSE LET f == ParseFlags(FlagDefaults, args)
         IN IF f.err # "none" THEN [t EXCEPT !.err = f.err]
            ELSE [t EXCEPT !.body = f.b,
                           !.concurrency = f.c,
                           !.graphs = f.g,
                           !.httpMethod = ToUpper(f.m),
                           !.requests = f.r,
                           !.URL = URLTokens(f.u)]

\* err := o(tester)
ApplyTo(t, o) ==
    CASE o.name = "WithURL" -> WithURL(t, o.arg)
      [] o.name = "WithRequests" -> WithRequests(t, o.arg)
      [] o.name = "WithConcurrency" -> WithConcurrency(t, o.arg)
      [] o.name = "WithStdout" -> WithStdout(t, o.arg)
      [] o.name = "WithStderr" -> WithStderr(t, o.arg)
      [] o.name = "WithGraphs" -> WithGraphs(t, o.arg)
      [] o.name = "WithHTTPMethod" -> WithHTTPMethod(t, o.arg)
      [] o.name = "WithBody" -> WithBody(t, o.arg)
      [] o.name = "FromArgs" -> FromArgs(t, o.arg)

\* the struct literal NewTester starts from, with the number of options passed
TesterLiteral(n) ==
    [NoCtor EXCEPT !.left = n, !.pc = "opts",
                   !.requests = DefaultNumRequests,
                   !.concurrency = DefaultConcurrency,
                   !.outputPath = DefaultOutputPath,
                   !.httpMethod = "GET",
                   !.stdout = "os.Stdout", !.stderr = "os.Stderr"]

ConstructInit ==
    /\ requests = 1
    /\ concurrency = 1
    /\ methodValid = TRUE
    /\ NewTesterState
    /\ RecorderUnused
    /\ MetricsUnused
    /\ cmp = [NoCompare EXCEPT !.s1 = OldExample, !.s2 = NewExample]
    /\ \E n \in 0..MaxOpts : ctor = TesterLiteral(n)
    /\ CLIUnused
    /\ CodecUnused
    /\ EarlyUnused

constructRest == <<cfg, mainv, wg, prodv, spawnv, wpc, cur, res, elapsed, mu,
                   tmu, stats, ExecutionsTime, hist, revision, local, issued,
                   mstats, ret, cmp, cli, codec, early>>

\* one iteration of `for _, o := range opts`; an error returns nil, err
ApplyOption ==
    /\ ctor.pc = "opts"
    /\ ctor.left > 0
    /\ \E name \in OptionNames :
       \E arg \in ArgsOf(name) :
          LET o == [name |-> name, arg |-> arg]
              t == ApplyTo([ctor EXCEPT !.last = o, !.left = @ - 1,
                                        !.applied = @ + 1], o)
          IN ctor' = IF t.err # "none" THEN [t EXCEPT !.pc = "done"] ELSE t
    /\ UNCHANGED constructRest

\* after the options: url.Parse, the host check, the requests check, make(chan)
Validate ==
    /\ ctor.pc = "opts"
    /\ ctor.left = 0
    /\ LET u == ParseURL(ctor.URL)
       IN ctor' =
            IF u.err THEN [ctor EXCEPT !.pc = "done", !.err = "parse"]
            ELSE IF URLInvalid(u)
            THEN [ctor EXCEPT !.pc = "done", !.err = "invalid URL"]
            ELSE IF RequestsInvalid(ctor.requests)
            THEN [ctor EXCEPT !.pc = "done",
                              !.err = "invalid number of requests"]
            ELSE [ctor EXCEPT !.pc = "done", !.err = "nil", !.work = TRUE,
                              !.tester = "built"]
    /\ UNCHANGED constructRest

\* the two constructors, NewTester in its steps and NewCompareStats
ConstructNext ==
    \/ ApplyOption
    \/ Validate
    \/ CallNewCompareStats

ConstructSpec == ConstructInit /\ [][ConstructNext]_vars


(* ---- RunCLI and the cmp subcommand ---- *)

\* command-line words: the subcommands, an unknown word, the path of a stats
\* file that exists, a path that does not, and the flag that sets a valid URL
ArgWords == {"run", "cmp", "bogus", "stats.txt", "missing.txt",
             "-u=http://fake.url"}
ArgLists == UNION {[1..n -> ArgWords] : n \in 0..MaxArgs}

\* os.Open succeeds and ReadStats accepts the content
Readable(path) == path = "stats.txt"

\* FromArgs, then the checks of NewTester: flag parsing stops at the first
\* word that is not a flag, so the URL is set only by a leading -u
RunArgsError(args) ==
    IF Len(args) < 1 THEN "ErrNoArgs"
    ELSE IF args[1] # "-u=http://fake.url" THEN "invalid URL"
    ELSE "nil"

\* variant: one file is taken to be enough
CMPArgsMissing_One(args) == Len(args) < 1
\* if len(args) < 2
CMPArgsMissing(args) == Len(args) < 2

CLIInit ==
    /\ requests = 1
    /\ concurrency = 1
    /\ methodValid = TRUE
    /\ NewTesterState
    /\ RecorderUnused
    /\ MetricsUnused
    /\ CompareUnused
    /\ ConstructUnused
    /\ \E args \in ArgLists : cli = [NoCLI EXCEPT !.args = args, !.pc = "start"]
    /\ CodecUnused
    /\ EarlyUnused

cliRest == <<cfg, mainv, wg, prodv, spawnv, wpc, cur, res, elapsed, mu, tmu,
             stats, ExecutionsTime, hist, revision, local, issued, mstats, ret,
             cmp, ctor, codec, early>>

\* RunCLI up to the switch on args[0]
RunCLI ==
    /\ cli.pc = "start"
    /\ cli' = IF Len(cli.args) < 1
              THEN [cli EXCEPT !.pc = "done", !.err = "ErrUnkownSubCommand"]
              ELSE IF cli.args[1] = "run" THEN [cli EXCEPT !.pc = "run"]
              ELSE IF cli.args[1] = "cmp" THEN [cli EXCEPT !.pc = "cmp"]
              ELSE [cli EXCEPT !.pc = "done", !.err = "ErrUnkownSubCommand"]
    /\ UNCHANGED cliRest

\* case "run": NewTester(FromArgs(args[1:]), WithStdout(w)), then tester.Run,
\* which prints the statistics to w
CLIRun ==
    /\ cli.pc = "run"
    /\ LET err == RunArgsError(Tail(cli.args))
       IN cli' = IF err # "nil" THEN [cli EXCEPT !.pc = "done", !.err = err]
                 ELSE [cli EXCEPT !.pc = "done", !.err = "nil", !.ran = TRUE,
                                  !.out = Append(@, "stats")]
    /\ UNCHANGED cliRest

\* case "cmp": CMPRun(w, args[1:]); the two files are read in turn and the
\* comparison is printed to w
CLICmp ==
    /\ cli.pc = "cmp"
    /\ LET args == Tail(cli.args)
       IN cli' =
            IF CMPArgsMissing(args)
            THEN [cli EXCEPT !.pc = "done", !.err = "ErrCMPNoArgs"]
            ELSE IF ~InRange(args, 0)
            THEN [cli EXCEPT !.pc = "done", !.err = "panic"]
            ELSE IF ~Readable(At(args, 0))
            THEN [cli EXCEPT !.pc = "done", !.err = "open", !.opened = 1]
            ELSE IF ~InRange(args, 1)
            THEN [cli EXCEPT !.pc = "done", !.err = "panic", !.opened = 1]
            ELSE IF ~Readable(At(args, 1))
            THEN [cli EXCEPT !.pc = "done", !.err = "open", !.opened = 2]
            ELSE [cli EXCEPT !.pc = "done", !.err = "nil", !.opened = 2,
                             !.out = Append(@, "comparison")]
    /\ UNCHANGED cliRest

CLINext ==
    \/ RunCLI
    \/ CLIRun
    \/ CLICmp

CLISpec == CLIInit /\ [][CLINext]_vars


(* ---- Stats.String and ReadStats ---- *)

\* a word of text: a plain string, the digits %d printed, or the digits %.3f
\* printed (held as a number of thousandths)
Str(v) == [kind |-> "str", v |-> v]
Dec(n) == [kind |-> "dec", v |-> n]
\* %.3f of a value given in ten-thousandths
Fix3(x) == [kind |-> "fix3", v |-> RoundDiv(x, 10)]

\* the words of a string, cut at its spaces
Words(chunks) == [i \in 1..Len(chunks) |-> Str(chunks[i])]

\* fmt.Sprintf of the seven lines; each line is its words between spaces
StatsString(st) ==
    <<<<Str("Site:")>> \o Words(st.URL),
      <<Str("Requests:"), Dec(st.Requests)>>,
      <<Str("Successes:"), Dec(st.Successes)>>,
      <<Str("Failures:"), Dec(st.Failures)>>,
      <<Str("P50(ms):"), Fix3(st.P50)>>,
      <<Str("P90(ms):"), Fix3(st.P90)>>,
      <<Str("P99(ms):"), Fix3(st.P99)>>>>

\* variant: a value that is not a number is read as 0
Atoi_Lenient(word) ==
    [err |-> FALSE, v |-> IF word.kind = "dec" THEN word.v ELSE 0]
\* strconv.Atoi accepts digits only
Atoi(word) ==
    IF word.kind = "dec" THEN [err |-> FALSE, v |-> word.v]
    ELSE [err |-> TRUE, v |-> 0]

\* strconv.ParseFloat, the result in ten-thousandths
ParseFloat(word) ==
    IF word.kind = "fix3" THEN [err |-> FALSE, v |-> word.v * 10]
    ELSE IF word.kind = "dec" THEN [err |-> FALSE, v |-> word.v * 10000]
    ELSE [err |-> TRUE, v |-> 0]

\* the body of the scanner loop for one line: pos := strings.Split(text, " ")
ReadLine(st, pos) ==
    IF Len(pos) < 2 THEN [err |-> "nil", stats |-> st]
    ELSE
      LET field == pos[1].v
          value == pos[2]
          int == Atoi(value)
          float == ParseFloat(value)
          Failed(e) == [err |-> e, stats |-> EmptyStats]
          Ok(x) == [err |-> "nil", stats |-> x]
      IN CASE field = "Site:" -> Ok([st EXCEPT !.URL = <<value.v>>])
           [] field = "Requests:" ->
                IF int.err THEN Failed("Atoi")
                ELSE Ok([st EXCEPT !.Requests = int.v])
           [] field = "Successes:" ->
                IF int.err THEN Failed("Atoi")
                ELSE Ok([st EXCEPT !.Successes = int.v])
           [] field = "Failures:" ->
                IF int.err THEN Failed("Atoi")
                ELSE Ok([st EXCEPT !.Failures = int.v])
           [] field = "P50(ms):" ->
                IF float.err THEN Failed("ParseFloat")
                ELSE Ok([st EXCEPT !.P50 = float.v])
           [] field = "P90(ms):" ->
                IF float.err THEN Failed("ParseFloat")
                ELSE Ok([st EXCEPT !.P90 = float.v])
           [] field = "P99(ms):" ->
                IF float.err THEN Failed("ParseFloat")
                ELSE Ok([st EXCEPT !.P99 = float.v])
           [] OTHER -> Failed("unknown statsfile format")

RECURSIVE ReadLines(_, _)
ReadLines(st, lines) ==
    IF lines = <<>> THEN [err |-> "nil", stats |-> st]
    ELSE LET r == ReadLine(st, Head(lines))
         IN IF r.err # "nil" THEN r ELSE ReadLines(r.stats, Tail(lines))

ReadStats(lines) == ReadLines(EmptyStats, lines)

\* URLs as chunks between spaces: none, one without a space, one with a space
\* in its path
StatsURLs == {<<"">>, <<"http://fake.url">>, <<"http://fake.url/a", "b">>}
Counts == 0..MaxRequests
Fractions == (0..MaxFraction) \cup {200000}
PrintableStats ==
    {[URL |-> u, Requests |-> r, Successes |-> r - f, Failures |-> f,
      P50 |-> a, P90 |-> b, P99 |-> c] :
        u \in StatsURLs, r \in Counts, f \in Counts,
        a \in Fractions, b \in Fractions, c \in Fractions}

\* lines a statistics file can hold, as their pieces between spaces: well
\* formed ones, a repeated field, a value of the wrong kind, an empty value
\* after two spaces, an unknown field, a lone word and an empty line
FileLines ==
    {<<Str("Site:"), Str("http://fake.url")>>,
     <<Str("Requests:"), Dec(1)>>,
     <<Str("Requests:"), Dec(2)>>,
     <<Str("Requests:"), Str("many")>>,
     <<Str("Successes:"), Fix3(15)>>,
     <<Str("Failures:"), Str(""), Dec(1)>>,
     <<Str("Failures:"), Dec(1), Str("of"), Dec(2)>>,
     <<Str("P50(ms):"), Fix3(15)>>,
     <<Str("P50(ms):"), Dec(2)>>,
     <<Str("P90(ms):"), Str("fast")>>,
     <<Str("P99(ms):"), Fix3(200000)>>,
     <<Str("Mean(ms):"), Fix3(15)>>,
     <<Str("Requests:")>>,
     <<Str("")>>}
StatsFiles == UNION {[1..n -> FileLines] : n \in 0..MaxLines}

CodecInit ==
    /\ requests = 1
    /\ concurrency = 1
    /\ methodValid = TRUE
    /\ NewTesterState
    /\ RecorderUnused
    /\ MetricsUnused
    /\ CompareUnused
    /\ ConstructUnused
    /\ CLIUnused
    /\ \/ \E st \in PrintableStats :
             codec = [NoCodec EXCEPT !.in = st, !.pc = "start"]
       \/ \E lines \in StatsFiles :
             codec = [NoCodec EXCEPT !.text = lines, !.pc = "file"]
    /\ EarlyUnused

codecRest == <<cfg, mainv, wg, prodv, spawnv, wpc, cur, res, elapsed, mu, tmu,
               stats, ExecutionsTime, hist, revision, local, issued, mstats,
               ret, cmp, ctor, cli, early>>

\* the record is printed
CallStatsString ==
    /\ codec.pc = "start"
    /\ codec' = [codec EXCEPT !.pc = "printed", !.text = StatsString(codec.in)]
    /\ UNCHANGED codecRest

\* the text is read back
CallReadStats ==
    /\ codec.pc = "printed"
    /\ LET r == ReadStats(codec.text)
       IN codec' = [codec EXCEPT !.pc = "read", !.err = r.err, !.out = r.stats]
    /\ UNCHANGED codecRest

\* ReadStatsFile on a file that exists: ReadStats on its lines, and a zero
\* Stats with the error when it fails
CallReadStatsFile ==
    /\ codec.pc = "file"
    /\ LET r == ReadStats(codec.text)
       IN codec' = [codec EXCEPT !.pc = "parsed", !.err = r.err,
                                 !.out = IF r.err # "nil" THEN EmptyStats
                                         ELSE r.stats]
    /\ UNCHANGED codecRest

CodecNext == CallStatsString \/ CallReadStats \/ CallReadStatsFile

CodecSpec == CodecInit /\ [][CodecNext]_vars

(* ---- Run of the ticker-dispatch Tester (first revision of src/bench.go) ---- *)

\* the Tester NewTester returned; the goroutines of the run, one per request
EarlyRun(kind, n) ==
    [NoEarly EXCEPT !.kind = kind, !.requests = n, !.pc = "start",
                    !.g = [i \in 1..n |-> "none"],
                    !.res = [i \in 1..n |-> NoResult]]

EarlyIdle ==
    /\ requests = 1
    /\ concurrency = 1
    /\ methodValid = TRUE
    /\ NewTesterState
    /\ RecorderUnused
    /\ MetricsUnused
    /\ CompareUnused
    /\ ConstructUnused
    /\ CLIUnused
    /\ CodecUnused

TickerInit ==
    /\ EarlyIdle
    /\ \E n \in 1..MaxRequests : early = EarlyRun("ticker", n)

earlyRest == <<cfg, mainv, wg, prodv, spawnv, wpc, cur, res, elapsed, mu, tmu,
               stats, ExecutionsTime, hist, revision, local, issued, mstats,
               ret, cmp, ctor, cli, codec>>

\* the goroutines `go func() { t.DoRequest(url); t.wg.Done() }()` started
Goroutines == 1..early.started

\* t.wg.Add(t.requests) and the start of the dispatching goroutine
TickerRun ==
    /\ early.kind = "ticker"
    /\ early.pc = "start"
    /\ early' = [early EXCEPT !.wg = @ + early.requests, !.pc = "send"]
    /\ UNCHANGED earlyRest

\* for x := 0; x < t.requests; x++ { t.work <- t.url }; the channel's buffer
\* holds t.requests items, so no send blocks
TickerSend ==
    /\ early.kind = "ticker"
    /\ early.pc = "send"
    /\ IF early.x < early.requests
       THEN early' = [early EXCEPT !.work = @ + 1, !.x = @ + 1]
       ELSE early' = [early EXCEPT !.pc = "wait"]
    /\ UNCHANGED earlyRest

\* a tick: url := <-t.work, and a goroutine is started for it
TickerDispatch ==
    /\ early.kind = "ticker"
    /\ early.work > 0
    /\ early' = [early EXCEPT !.work = @ - 1, !.started = @ + 1,
                              !.g[early.started + 1] = "start"]
    /\ UNCHANGED earlyRest

\* t.RecordRequest(), http.NewRequest on the URL NewTester parsed, the headers
\* and the start of t.client.Do
TickerDoRequest(i) ==
    /\ early.kind = "ticker"
    /\ i \in Goroutines
    /\ early.g[i] = "start"
    /\ early' = [early EXCEPT !.stats.Requests = @ + 1, !.g[i] = "do"]
    /\ UNCHANGED earlyRest

\* t.client.Do returns; on an error RecordFailure and return
TickerClientDo(i) ==
    /\ early.kind = "ticker"
    /\ i \in Goroutines
    /\ early.g[i] = "do"
    /\ \E r \in CallResults :
          early' = IF CallErrored(r)
                   THEN [early EXCEPT !.res[i] = r, !.stats.Failures = @ + 1,
                                      !.g[i] = "wgDone"]
                   ELSE [early EXCEPT !.res[i] = r, !.g[i] = "recordTime"]
    /\ UNCHANGED earlyRest

\* t.TimeRecorder.RecordTime(elapsedTime): Lock, append, Unlock
TickerRecordTime(i) ==
    /\ early.kind = "ticker"
    /\ i \in Goroutines
    /\ early.g[i] = "recordTime"
    /\ \E e \in Latencies :
          early' = [early EXCEPT !.times = RecordTime(@, e),
                                 !.g[i] = "classify"]
    /\ UNCHANGED earlyRest

\* the status check, then RecordFailure or RecordSuccess
TickerClassify(i) ==
    /\ early.kind = "ticker"
    /\ i \in Goroutines
    /\ early.g[i] = "classify"
    /\ early' = IF StatusNotOK(early.res[i])
                THEN [early EXCEPT !.stats.Failures = @ + 1, !.g[i] = "wgDone"]
                ELSE [early EXCEPT !.stats.Success = @ + 1, !.g[i] = "wgDone"]
    /\ UNCHANGED earlyRest

\* t.wg.Done()
EarlyWgDone(i) ==
    /\ early.panic = "none"
    /\ i \in Goroutines
    /\ early.g[i] = "wgDone"
    /\ early' = [early EXCEPT !.wg = WgDoneCount(@), !.g[i] = "exited"]
    /\ UNCHANGED earlyRest

\* t.wg.Wait() returns
TickerWait ==
    /\ early.kind = "ticker"
    /\ early.pc = "wait"
    /\ WgWaitReady(early.wg)
    /\ early' = [early EXCEPT !.pc = "metrics"]
    /\ UNCHANGED earlyRest

\* t.SetFastestAndSlowest(): the index expression ExecutionsTime[0] panics on
\* an empty slice
TickerSetFastestAndSlowest ==
    /\ early.kind = "ticker"
    /\ early.pc = "metrics"
    /\ LET r == SetFastestAndSlowest(early.stats, early.times)
       IN early' = IF r.err = "panic"
                   THEN [early EXCEPT !.panic = "index out of range",
                                      !.pc = "panicked"]
                   ELSE [early EXCEPT !.stats = r.stats, !.pc = "report"]
    /\ UNCHANGED earlyRest

\* the three LogFStdOut calls, and Run returns
TickerReport ==
    /\ early.kind = "ticker"
    /\ early.pc = "report"
    /\ early' = [early EXCEPT !.out = Append(@, early.stats), !.pc = "done"]
    /\ UNCHANGED earlyRest

TickerNext ==
    \/ TickerRun
    \/ TickerSend
    \/ TickerDispatch
    \/ TickerWait
    \/ TickerSetFastestAndSlowest
    \/ TickerReport
    \/ \E i \in 1..MaxRequests :
          \/ TickerDoRequest(i)
          \/ TickerClientDo(i)
          \/ TickerRecordTime(i)
          \/ TickerClassify(i)
          \/ EarlyWgDone(i)

TickerSpec == TickerInit /\ [][TickerNext]_vars
(* ---- LoadGen.Run and LoadGen.DoRequest (src/unnamed/part_005) ---- *)

LoadGenInit ==
    /\ EarlyIdle
    /\ \E n \in 1..MaxRequests : early = EarlyRun("loadgen", n)

\* a goroutine panicked: the process is gone
Crashed == early.panic # "none"

\* work := bencher(): the channel is made and the producer goroutine started
LoadGenRun ==
    /\ early.kind = "loadgen"
    /\ early.pc = "start"
    /\ early' = [early EXCEPT !.pc = "range"]
    /\ UNCHANGED earlyRest

\* the producer: for x := 0; x < lg.Requests; x++ { work <- lg.URL }, then the
\* deferred close(work); the buffer holds lg.Requests items
LoadGenProduce ==
    /\ early.kind = "loadgen"
    /\ early.pc # "start"
    /\ ~early.closed
    /\ ~Crashed
    /\ IF early.x < early.requests
       THEN early' = [early EXCEPT !.work = @ + 1, !.x = @ + 1]
       ELSE early' = [early EXCEPT !.closed = TRUE]
    /\ UNCHANGED earlyRest

\* for url := range work { lg.Wg.Add(1); go lg.DoRequest(url) }
LoadGenRange ==
    /\ early.kind = "loadgen"
    /\ early.pc = "range"
    /\ ~Crashed
    /\ early.work > 0 \/ early.closed
    /\ IF early.work > 0
       THEN early' = [early EXCEPT !.work = @ - 1, !.wg = WgAdd(@, 1),
                                   !.started = @ + 1,
                                   !.g[early.started + 1] = "start"]
       ELSE early' = [early EXCEPT !.pc = "wait"]
    /\ UNCHANGED earlyRest

\* atomic.AddUint64(&lg.Stats.Requests, 1), http.NewRequest on the URL
\* NewLoadGen parsed, the headers and the start of lg.Client.Do
LoadGenDoRequest(i) ==
    /\ early.kind = "loadgen"
    /\ i \in Goroutines
    /\ early.g[i] = "start"
    /\ ~Crashed
    /\ early' = [early EXCEPT !.stats.Requests = @ + 1, !.g[i] = "do"]
    /\ UNCHANGED earlyRest

\* lg.Client.Do returns. On an error Failures is incremented and the function
\* goes on to read resp.StatusCode of the nil response; on a status other than
\* 200 Failures is incremented and the function goes on.
LoadGenClientDo(i) ==
    /\ early.kind = "loadgen"
    /\ i \in Goroutines
    /\ early.g[i] = "do"
    /\ ~Crashed
    /\ \E r \in CallResults :
          early' = IF CallErrored(r)
                   THEN [early EXCEPT !.res[i] = r, !.stats.Failures = @ + 1,
                                      !.panic = "nil pointer dereference",
                                      !.g[i] = "panicked"]
                   ELSE IF StatusNotOK(r)
                   THEN [early EXCEPT !.res[i] = r, !.stats.Failures = @ + 1,
                                      !.g[i] = "success"]
                   ELSE [early EXCEPT !.res[i] = r, !.g[i] = "success"]
    /\ UNCHANGED earlyRest

\* the last statement: atomic.AddUint64(&lg.Stats.Success, 1)
LoadGenSuccess(i) ==
    /\ early.kind = "loadgen"
    /\ i \in Goroutines
    /\ early.g[i] = "success"
    /\ ~Crashed
    /\ early' = [early EXCEPT !.stats.Success = @ + 1, !.g[i] = "wgDone"]
    /\ UNCHANGED earlyRest

\* lg.Wg.Wait() returns, the two Printf calls, and Run returns
LoadGenWait ==
    /\ early.kind = "loadgen"
    /\ early.pc = "wait"
    /\ ~Crashed
    /\ WgWaitReady(early.wg)
    /\ early' = [early EXCEPT !.out = Append(@, early.stats), !.pc = "done"]
    /\ UNCHANGED earlyRest

LoadGenNext ==
    \/ LoadGenRun
    \/ LoadGenProduce
    \/ LoadGenRange
    \/ LoadGenWait
    \/ \E i \in 1..MaxRequests :
          \/ LoadGenDoRequest(i)
          \/ LoadGenClientDo(i)
          \/ LoadGenSuccess(i)
          \/ EarlyWgDone(i)

LoadGenSpec == LoadGenInit /\ [][LoadGenNext]_vars
TypeOK ==
    /\ requests \in 1..MaxRequests
    /\ concurrency \in 1..MaxConcurrency
    /\ mainpc \in {"start", "wait", "calc", "report", "done"}
    /\ wg \in Int
    /\ px \in 0..(MaxRequests + 1)
    /\ mu \in {0} \cup Workers
    /\ tmu \in {0} \cup Workers

(* ---- properties ---- *)

Terminal == {"Succeeded", "Failed"}
Returned == mainpc = "done"
OKResult == [err |-> FALSE, status |-> StatusOK]
GotNonOK(x) == ~resp[x].err /\ resp[x].status \notin {0, StatusOK}
InFlightUnits == {x \in Units : unit[x] = "InFlight" /\ tally[x].calls > 0}

\* C1: when Run returns, stats.Requests equals N and each of the N units
\* ended Succeeded or Failed, whatever the outcomes of the requests were.
C1_EveryUnitAttempted ==
    Returned => /\ stats.Requests = requests
                /\ \A x \in 1..requests : unit[x] \in Terminal

\* C2: when Run returns, Requests = Successes + Failures, and every unit counted
\* as a request was classified exactly once.
C2_RequestsAreClassified ==
    Returned => /\ stats.Requests = stats.Successes + stats.Failures
                /\ \A x \in Units : /\ tally[x].req <= 1
                                    /\ tally[x].req = tally[x].succ + tally[x].fail

C2_Witness ==
    Returned /\ stats.Successes >= 1 /\ stats.Failures >= 1

\* C3: when every request is answered with 200, Run returns with Requests = N,
\* Successes = N and Failures = 0, for every N and C (C > N included).
C3_AllSucceed ==
    (/\ Returned
     /\ methodValid
     /\ \A x \in 1..requests : resp[x] \in {NoResult, OKResult})
    => /\ stats.Requests = requests
       /\ stats.Successes = requests
       /\ stats.Failures = 0

C3_Witness ==
    /\ Returned
    /\ concurrency > requests
    /\ \A x \in 1..requests : resp[x] = OKResult
    /\ stats.Successes = requests

\* C4: at most C requests are in flight (HTTP call started, outcome not yet
\* recorded) in any state.
C4_InFlightAtMostC == Cardinality(InFlightUnits) <= concurrency

C4_Witness == concurrency >= 2 /\ Cardinality(InFlightUnits) = concurrency

C6_NonOKStatus ==
    \A x \in Units :
        (unit[x] \in Terminal /\ GotNonOK(x)) =>
            /\ unit[x] = "Failed"
            /\ tally[x] = [req |-> 1, succ |-> 0, fail |-> 1, samples |-> 1,
                           calls |-> 1]

C6_Witness ==
    \E x \in Units : unit[x] = "Failed" /\ GotNonOK(x) /\ Len(ExecutionsTime) = 1

\* C7: when building the HTTP request fails, the attempt adds one request and
\* one failure, records no latency sample and makes no HTTP call.
C7_ConstructionFailure ==
    \A x \in Units :
        (unit[x] \in Terminal /\ ~methodValid) =>
            /\ unit[x] = "Failed"
            /\ resp[x] = NoResult
            /\ tally[x] = [req |-> 1, succ |-> 0, fail |-> 1, samples |-> 0,
                           calls |-> 0]

C7_Witness ==
    /\ ~methodValid
    /\ \E x \in Units : unit[x] = "Failed" /\ stats.Failures = 1

\* C8: under fair scheduling, and with every HTTP call returning, wg.Wait
\* unblocks and Run returns to its caller.
C8_RunTerminates == <>(mainpc = "done" /\ result # "none")

C8_Witness ==
    /\ mainpc = "done"
    /\ result = "nil"
    /\ requests = MaxRequests
    /\ stats.Requests < requests

WaitReturned == mainpc \in {"calc", "report", "done"}

NoRecordStep ==
    /\ stats'.Requests = stats.Requests
    /\ stats'.Successes = stats.Successes
    /\ stats'.Failures = stats.Failures
    /\ Len(ExecutionsTime') = Len(ExecutionsTime)

\* C9: from the moment wg.Wait has returned no worker is in flight, and no step
\* changes a counter or the number of samples any more.
C9_StatsAfterDispatch ==
    /\ [](WaitReturned =>
            \A w \in Workers :
                wpc[w] = IF w <= concurrency THEN "exited" ELSE "idle")
    /\ [][WaitReturned => NoRecordStep]_vars

C9_Witness ==
    /\ mainpc = "report"
    /\ concurrency >= 2
    /\ stats.URLSet
    /\ \A w \in 1..concurrency : wpc[w] = "exited"

TakenOnce ==
    /\ stats.Requests <= requests
    /\ \A x \in Units : tally[x].req <= 1
    /\ \A w1, w2 \in Workers : (w1 # w2 /\ cur[w1] # 0) => cur[w1] # cur[w2]

TerminalStays == \A x \in Units : unit[x] \in Terminal => unit'[x] = unit[x]

\* C10: a unit is taken by at most one worker and attempted at most once,
\* Requests never exceeds N, and a unit that is Succeeded or Failed stays so.
C10_AttemptedAtMostOnce == []TakenOnce /\ [][TerminalStays]_vars

C10_Witness ==
    /\ stats.Requests = requests
    /\ \E x, y \in Units : unit[x] \in Terminal /\ unit[y] = "InFlight"

InCall(op) == {w \in Callers : wpc[w] # "idle" /\ local[w].op = op}
Pending(op) == Cardinality(InCall(op))

\* C11: no increment of RecordRequest, RecordSuccess or RecordFailure is lost:
\* each counter equals the number of calls made to its function, less the calls
\* still in progress, whatever the interleaving of the callers.
C11_NoLostIncrement ==
    /\ stats.Requests + Pending("Request") = issued.req
    /\ stats.Successes + Pending("Success") = issued.succ
    /\ stats.Failures + Pending("Failure") = issued.fail

C11_Witness ==
    /\ revision = 2
    /\ stats.Requests >= 1
    /\ \E w1, w2 \in Callers :
          /\ w1 # w2
          /\ wpc[w1] = "store" /\ local[w1].op = "Request"
          /\ wpc[w2] = "lock" /\ local[w2].op = "Request"

RECURSIVE ValuesOf(_)
ValuesOf(calls) ==
    IF calls = <<>> THEN <<>> ELSE <<Head(calls).v>> \o ValuesOf(Tail(calls))

IsPrefix(a, b) == Len(a) <= Len(b) /\ SubSeq(b, 1, Len(a)) = a

OneCaller == \A i, j \in 1..Len(issued.times) :
                 issued.times[i].by = issued.times[j].by

SamplesKept ==
    /\ Len(ExecutionsTime) + Pending("Time") = Len(issued.times)
    /\ Pending("Time") = 0 =>
           SortAsc(ExecutionsTime) = SortAsc(ValuesOf(issued.times))
    /\ OneCaller => IsPrefix(ExecutionsTime, ValuesOf(issued.times))

NeverShrinks == IsPrefix(ExecutionsTime, ExecutionsTime')

\* C12: RecordTime loses no sample: the collection holds one value per finished
\* call, the same values that were passed, in call order when one goroutine
\* made the calls, and no step removes or moves a value already recorded.
C12_NoLostSample == []SamplesKept /\ [][NeverShrinks]_vars

C12_Witness ==
    /\ Pending("Time") = 0
    /\ Len(ExecutionsTime) >= 2
    /\ \E i, j \in 1..Len(issued.times) :
          /\ issued.times[i].by # issued.times[j].by
          /\ issued.times[i].v # issued.times[j].v

\* C13: a run of the worker-pool Tester that ends without any latency sample
\* reports that to the caller of Run: Run does not print a statistics record
\* and return nil.
C13_EmptyRunSurfaced ==
    (Returned /\ ExecutionsTime = <<>>) => (result # "nil" /\ stdout = <<>>)

Called(fn) == ret.fn = fn

\* C14: SetMetrics on a recorder without samples returns ErrTimeNotRecorded,
\* indexes nothing and leaves every statistics field as it was.
C14_EmptySetMetrics ==
    [][(ExecutionsTime = <<>> /\ ret'.fn = "SetMetrics") =>
           (/\ ret'.err = "ErrTimeNotRecorded"
            /\ mstats' = mstats
            /\ ExecutionsTime' = ExecutionsTime)]_vars

C14_Witness ==
    /\ Called("SetMetrics")
    /\ ret.err = "ErrTimeNotRecorded"
    /\ ExecutionsTime = <<>>
    /\ mstats # ZeroMetrics

CountBelow(s, v) == Cardinality({i \in 1..Len(s) : s[i] < v})
CountUpTo(s, v) == Cardinality({i \in 1..Len(s) : s[i] <= v})

\* the integer nearest to n * num / den, the upper one of two
NearestRank(n, num, den) ==
    CHOOSE r \in 0..n : /\ 2 * den * r - den <= 2 * n * num
                        /\ 2 * n * num < 2 * den * r + den

\* v is the value of the given rank among the samples in ascending order
IsRankValue(s, v, num, den) ==
    LET r == NearestRank(Len(s), num, den)
    IN CountBelow(s, v) < r /\ r <= CountUpTo(s, v)

IsExample(s) == SortAsc(s) = <<5, 6, 7, 8, 10, 11, 13>>

\* C15: for a non-empty collection of n samples P50, P90 and P99 are the values
\* of rank round(n * p) in ascending order, p = 0.50, 0.90, 0.99, halves rounded
\* up; samples 5, 6, 7, 8, 10, 11, 13 give 8, 11 and 13.
C15_NearestRank ==
    /\ (Called("CalculatePercentiles") /\ ExecutionsTime # <<>>) =>
          /\ ret.err = "nil"
          /\ IsRankValue(ExecutionsTime, stats.P50, 50, 100)
          /\ IsRankValue(ExecutionsTime, stats.P90, 90, 100)
          /\ IsRankValue(ExecutionsTime, stats.P99, 99, 100)
          /\ IsExample(ExecutionsTime) =>
                 stats.P50 = 8 /\ stats.P90 = 11 /\ stats.P99 = 13
    /\ (Called("SetMetrics") /\ ExecutionsTime # <<>>) =>
          /\ ret.err = "nil"
          /\ IsRankValue(ExecutionsTime, mstats.Perc90, 90, 100)
          /\ IsRankValue(ExecutionsTime, mstats.Perc99, 99, 100)
          /\ IsExample(ExecutionsTime) =>
                 mstats.Perc90 = 11 /\ mstats.Perc99 = 13

C15_Witness ==
    /\ Called("CalculatePercentiles")
    /\ IsExample(ExecutionsTime)
    /\ stats.P50 = 8

\* C16: for n >= 1 samples the three indices are ordered and inside the
\* collection, so no index expression panics and P50 <= P90 <= P99.
C16_IndicesInRange ==
    (Called("CalculatePercentiles") /\ ExecutionsTime # <<>>) =>
        LET n == Len(ExecutionsTime)
        IN /\ 0 <= PercentileIdx(n, 50, 100)
           /\ PercentileIdx(n, 50, 100) <= PercentileIdx(n, 90, 100)
           /\ PercentileIdx(n, 90, 100) <= PercentileIdx(n, 99, 100)
           /\ PercentileIdx(n, 99, 100) <= n - 1
           /\ ret.err # "panic"
           /\ stats.P50 <= stats.P90
           /\ stats.P90 <= stats.P99
           /\ \A m \in 1..(MaxCount * MaxCount) :
                  /\ 0 <= PercentileIdx(m, 50, 100)
                  /\ PercentileIdx(m, 50, 100) <= PercentileIdx(m, 90, 100)
                  /\ PercentileIdx(m, 90, 100) <= PercentileIdx(m, 99, 100)
                  /\ PercentileIdx(m, 99, 100) <= m - 1

C16_Witness ==
    /\ Called("CalculatePercentiles")
    /\ Len(ExecutionsTime) = 1
    /\ stats.P50 = ExecutionsTime[1]
    /\ stats.P99 = ExecutionsTime[1]

IsMin(s, v) == (\E i \in 1..Len(s) : s[i] = v) /\ \A i \in 1..Len(s) : v <= s[i]
IsMax(s, v) == (\E i \in 1..Len(s) : s[i] = v) /\ \A i \in 1..Len(s) : s[i] <= v

\* C17: for a non-empty collection in any order Fastest is the least sample and
\* Slowest the greatest; samples 100, 200, 100, 50 give 50 and 200.
C17_FastestSlowest ==
    ((Called("SetFastestAndSlowest") \/ Called("SetMetrics"))
        /\ ExecutionsTime # <<>>) =>
        /\ ret.err = "nil"
        /\ IsMin(ExecutionsTime, mstats.Fastest)
        /\ IsMax(ExecutionsTime, mstats.Slowest)
        /\ SortAsc(ExecutionsTime) = <<50, 100, 100, 200>> =>
               mstats.Fastest = 50 /\ mstats.Slowest = 200

C17_Witness ==
    /\ Called("SetFastestAndSlowest")
    /\ ExecutionsTime = <<100, 200, 100, 50>>
    /\ mstats.Fastest = 50
    /\ mstats.Slowest = 200

RECURSIVE Sum(_)
Sum(s) == IF s = <<>> THEN 0 ELSE Head(s) + Sum(Tail(s))

\* C18: for a non-empty collection SetMetrics sets Mean to the sum of all
\* samples over their number; samples 50, 100, 200, 100, 50 give 100.
C18_Mean ==
    (Called("SetMetrics") /\ ExecutionsTime # <<>>) =>
        /\ mstats.Mean = Quotient(Sum(ExecutionsTime), Len(ExecutionsTime))
        /\ SortAsc(ExecutionsTime) = <<50, 50, 100, 100, 200>> =>
               mstats.Mean.num = 100 * mstats.Mean.den

C18_Witness ==
    /\ Called("SetMetrics")
    /\ ExecutionsTime = <<50, 50, 100, 100, 200>>
    /\ mstats.Mean = Quotient(500, 5)

\* the rows String produced, returned to the caller or written by CMPRun
Output == IF cmp.out # <<>> THEN cmp.out
          ELSE IF stdout # <<>> THEN stdout[1] ELSE <<>>
Printed == Output # <<>>
OldOf(row) == row.old \div 1000
NewOf(row) == row.new \div 1000

\* p is the number of hundredths nearest to delta / old * 100
IsNearestHundredths(p, delta, old) ==
    LET d == p * old - 10000 * delta
    IN 2 * d <= old /\ -old <= 2 * d

IsExamplePair == cmp.s1 = OldExample /\ cmp.s2 = NewExample

\* C19: for P50, P90 and P99 String reports delta = S2 - S1 and percentage =
\* delta / S1 * 100 to two decimals; old 100, 110, 120 against new 99, 100, 101
\* gives (-1.000, -1.00), (-10.000, -9.09), (-19.000, -15.83).
C19_DeltaAndPercentage ==
    Printed =>
        /\ Output[1].old = 1000 * cmp.s1.P50 /\ Output[1].new = 1000 * cmp.s2.P50
        /\ Output[2].old = 1000 * cmp.s1.P90 /\ Output[2].new = 1000 * cmp.s2.P90
        /\ Output[3].old = 1000 * cmp.s1.P99 /\ Output[3].new = 1000 * cmp.s2.P99
        /\ \A i \in 1..3 :
              LET row == Output[i]
              IN /\ row.delta = row.new - row.old
                 /\ OldOf(row) # 0 =>
                        /\ row.pct.kind = "num"
                        /\ IsNearestHundredths(row.pct.hundredths,
                                               NewOf(row) - OldOf(row),
                                               OldOf(row))
        /\ IsExamplePair =>
              /\ Output[1].delta = -1000 /\ Output[1].pct.hundredths = -100
              /\ Output[2].delta = -10000 /\ Output[2].pct.hundredths = -909
              /\ Output[3].delta = -19000 /\ Output[3].pct.hundredths = -1583

C19_Witness ==
    /\ Printed
    /\ IsExamplePair
    /\ Output[3].pct.hundredths = -1583

\* C20: the comparator never divides by a zero old value: no printed
\* percentage is an infinity or NaN.
C20_ZeroOldGuarded ==
    Printed => \A i \in 1..3 : Output[i].pct.kind = "num"

\* C29: when Run returns the producer has sent all N items and closed the work
\* channel, and every worker has exited: no goroutine of the run is left
\* blocked on the channel.
C29_NoGoroutineLeft ==
    Returned => /\ px = requests
                /\ ppc = "closed"
                /\ \A w \in 1..concurrency : wpc[w] = "exited"

\* workers between the count of an attempt and its classification
Unclassified ==
    {w \in Workers : wpc[w] \in {"newRequest", "do", "recordTime",
                                 "inRecordTime", "recordSuccess",
                                 "inRecordSuccess", "recordFailure",
                                 "inRecordFailure"}}

CountersBounded ==
    /\ stats.Successes + stats.Failures <= stats.Requests
    /\ stats.Requests <= requests
    /\ stats.Requests - (stats.Successes + stats.Failures) =
           Cardinality(Unclassified)
    /\ Cardinality(Unclassified) <= concurrency

CountersDelta ==
    (stats'.Requests - stats.Requests) + (stats'.Successes - stats.Successes)
        + (stats'.Failures - stats.Failures)

CounterStep ==
    /\ stats'.Requests - stats.Requests \in {0, 1}
    /\ stats'.Successes - stats.Successes \in {0, 1}
    /\ stats'.Failures - stats.Failures \in {0, 1}
    /\ CountersDelta <= 1

\* C30: in every state of a run Successes + Failures <= Requests <= N, the
\* difference is the number of attempts counted and not yet classified, at
\* most C, and a step adds one to at most one counter and lowers none.
C30_CountersDuringRun == []CountersBounded /\ [][CounterStep]_vars

C30_Witness ==
    /\ Cardinality(Unclassified) = 2
    /\ stats.Requests = 2
    /\ stats.Successes + stats.Failures = 0

Constructed == ctor.pc = "done"
\* the errors an option can return
OptionFailures == {"ErrValueCannotBeNil", "ErrNoArgs", "invalid value",
                   "flag provided but not defined", "flag needs an argument"}
Validated == Constructed /\ ctor.left = 0 /\ ctor.err \notin OptionFailures
Accepted == Constructed /\ ctor.err = "nil" /\ ctor.tester = "built"
Rejected == Constructed /\ ctor.err \notin {"nil", "none"}
                /\ ctor.tester = "nil" /\ ~ctor.work

\* C21: NewTester returns an error and no Tester whenever the concurrency is
\* below 1.
C21_ConcurrencyValidated == (Constructed /\ ctor.concurrency < 1) => Rejected

SchemeOrHostEmpty(u) == ParseURL(u).Scheme = "" \/ ParseURL(u).Host = ""

\* C22: NewTester returns an error for every URL whose scheme or host is empty,
\* and accepts http://fake.url.
C22_URLValidated ==
    /\ (Constructed /\ ctor.left = 0 /\ SchemeOrHostEmpty(ctor.URL)) => Rejected
    /\ (Validated /\ ctor.URL = FakeURL /\ ctor.requests >= 1) => Accepted

\* C23: NewTester returns an error and no Tester for every request count below
\* 1, creating no work channel, and accepts every count from 1 up.
C23_RequestsValidated ==
    /\ (Constructed /\ ctor.requests < 1) => Rejected
    /\ (Validated /\ ctor.requests >= 1 /\ ~ParseURL(ctor.URL).err
           /\ ParseURL(ctor.URL).Host # "") => Accepted
    /\ ctor.work => ctor.requests >= 1

C23_Witness ==
    /\ Rejected
    /\ ctor.err = "invalid number of requests"
    /\ ctor.URL = FakeURL
    /\ ctor.requests = 0

NilWriterLast ==
    /\ ctor.last.name \in {"WithStdout", "WithStderr"}
    /\ ctor.last.arg = "nil"

HasNilWriter(opts) == \E i \in 1..Len(opts) : opts[i].arg = "nil"

OptionErrors ==
    /\ NilWriterLast =>
          Rejected /\ ctor.err = "ErrValueCannotBeNil"
    /\ (Constructed /\ ctor.err = "ErrValueCannotBeNil") => NilWriterLast
    /\ (Constructed /\ ctor.left > 0) => Rejected
    /\ (cmp.err # "none" /\ HasNilWriter(cmp.opts)) =>
          /\ cmp.err = "ErrValueCannotBeNil"
          /\ ~cmp.made /\ cmp.Stdout = "" /\ cmp.Stderr = ""
    /\ cmp.err = "ErrValueCannotBeNil" => HasNilWriter(cmp.opts)

TesterFields(t) == <<t.URL, t.requests, t.concurrency, t.graphs, t.outputPath,
                     t.stdout, t.stderr, t.work, t.tester, t.httpMethod,
                     t.body>>

\* the step in which an option fails changes no field, and nothing follows it
FailedOptionStep ==
    /\ (ctor'.err \in OptionFailures /\ ctor.err = "none") =>
           TesterFields(ctor') = TesterFields(ctor)
    /\ Constructed => ctor' = ctor

\* C24: an option that returns an error makes NewTester return nil and that
\* error, with no later option applied and no validation done; a nil writer
\* given to WithStdout, WithStderr, WithCMPStdout or WithCMPStderr is
\* ErrValueCannotBeNil.
C24_OptionError == []OptionErrors /\ [][FailedOptionStep]_vars

C24_Witness ==
    /\ Rejected
    /\ ctor.err = "ErrValueCannotBeNil"
    /\ ctor.left > 0
    /\ ctor.URL = <<"/", "/", "host">>
    /\ cmp.err = "ErrValueCannotBeNil"

DefaultsKept ==
    (Accepted /\ ctor.applied = 1 /\ ctor.last.name = "WithURL") =>
        /\ ctor.requests = DefaultNumRequests /\ ctor.requests = 1
        /\ ctor.concurrency = DefaultConcurrency /\ ctor.concurrency = 1
        /\ ctor.graphs = FALSE
        /\ ctor.outputPath = DefaultOutputPath

OptionStored ==
    /\ ctor.last.name = "WithRequests" => ctor.requests = ctor.last.arg
    /\ ctor.last.name = "WithConcurrency" => ctor.concurrency = ctor.last.arg

\* only the option for a field changes it
OnlyItsOption ==
    /\ (\/ ctor'.applied = ctor.applied
        \/ ctor'.last.name \notin {"WithRequests", "FromArgs"}) =>
           ctor'.requests = ctor.requests
    /\ (\/ ctor'.applied = ctor.applied
        \/ ctor'.last.name \notin {"WithConcurrency", "FromArgs"}) =>
           ctor'.concurrency = ctor.concurrency

\* C28: with only a valid URL NewTester keeps requests 1, concurrency 1, no
\* graphs and the default output path; WithRequests(n) and WithConcurrency(c)
\* store exactly n and c, and the option applied last decides a field.
C28_DefaultsAndLastWins ==
    /\ [](DefaultsKept /\ OptionStored)
    /\ [][OnlyItsOption]_vars

C28_Witness ==
    /\ Accepted
    /\ ctor.applied >= 3
    /\ ctor.last.name = "WithConcurrency"
    /\ ctor.concurrency = MaxConcurrency
    /\ ctor.requests = MaxRequests

ViaNewCompareStats == cmp.err # "none" /\ stdout = <<>>

CompareConstructed ==
    ViaNewCompareStats =>
        /\ (cmp.s1 = ZeroStats \/ cmp.s2 = ZeroStats) <=>
               cmp.err = "ErrEmptyStats"
        /\ cmp.err = "ErrEmptyStats" => ~cmp.made
        /\ (cmp.s1 # ZeroStats /\ cmp.s2 # ZeroStats
               /\ ~HasNilWriter(cmp.opts)) =>
               /\ cmp.made /\ cmp.err = "nil"
               /\ cmp.S1 = cmp.s1 /\ cmp.S2 = cmp.s2

ArgumentsKept == cmp'.s1 = cmp.s1 /\ cmp'.s2 = cmp.s2

\* C25: NewCompareStats returns ErrEmptyStats exactly when s1 or s2 is the
\* zero-value Stats; otherwise, when no option fails, it returns a CompareStats
\* whose S1 and S2 are the two arguments.
C25_EmptyStatsRejected == []CompareConstructed /\ [][ArgumentsKept]_vars

C25_Witness ==
    /\ cmp.made
    /\ cmp.opts # <<>>
    /\ cmp.S1 = OldExample
    /\ cmp.S2 = NewExample
    /\ cmp.out # <<>>

UnknownSubCommand == cli.args = <<>> \/ cli.args[1] \notin {"run", "cmp"}
TooFewFiles == cli.args # <<>> /\ cli.args[1] = "cmp" /\ Len(cli.args) < 3
NothingDone == ~cli.ran /\ cli.opened = 0 /\ cli.out = <<>>

\* C27: RunCLI returns ErrUnkownSubCommand for no arguments and for a first
\* argument other than run and cmp, and cmp returns ErrCMPNoArgs for fewer than
\* two files; in these cases nothing is run, read or written.
C27_CLIErrors ==
    /\ (UnknownSubCommand \/ TooFewFiles) => NothingDone
    /\ cli.pc = "done" =>
          /\ UnknownSubCommand <=> cli.err = "ErrUnkownSubCommand"
          /\ TooFewFiles <=> cli.err = "ErrCMPNoArgs"

C27_Witness ==
    /\ cli.pc = "done"
    /\ cli.args = <<"cmp", "stats.txt">>
    /\ cli.err = "ErrCMPNoArgs"

\* y is x to the nearest thousandth, both in ten-thousandths
IsRounded3(y, x) ==
    /\ y % 10 = 0
    /\ 2 * (y - x) <= 10
    /\ 2 * (x - y) <= 10

\* C26: reading back the text Stats.String printed gives the same URL,
\* Requests, Successes and Failures, and P50, P90, P99 rounded to three
\* decimals.
C26_RoundTrip ==
    codec.pc = "read" =>
        /\ codec.err = "nil"
        /\ codec.out.URL = codec.in.URL
        /\ codec.out.Requests = codec.in.Requests
        /\ codec.out.Successes = codec.in.Successes
        /\ codec.out.Failures = codec.in.Failures
        /\ IsRounded3(codec.out.P50, codec.in.P50)
        /\ IsRounded3(codec.out.P90, codec.in.P90)
        /\ IsRounded3(codec.out.P99, codec.in.P99)

\* units answered with a status other than 200
NonOKAnswered == Cardinality({x \in Units : GotNonOK(x)})

\* units counted as a request whose attempt ended without a response:
\* http.NewRequest failed or client.Do returned an error
FailedBeforeResponse ==
    Cardinality({x \in Units : /\ unit[x] = "Failed"
                               /\ (resp[x] = NoResult \/ resp[x].err)})

\* C31: in every state Successes <= len(ExecutionsTime) <= Requests; when Run
\* returns, len(ExecutionsTime) is Successes plus the number of requests
\* answered with a non-200 status, which is Requests minus the attempts that
\* failed before a response was received.
C31_SamplesBetweenCounters ==
    /\ stats.Successes <= Len(ExecutionsTime)
    /\ Len(ExecutionsTime) <= stats.Requests
    /\ Returned =>
          /\ Len(ExecutionsTime) = stats.Successes + NonOKAnswered
          /\ Len(ExecutionsTime) = stats.Requests - FailedBeforeResponse

C31_Witness ==
    /\ Returned
    /\ stats.Requests = 2
    /\ Len(ExecutionsTime) = 1
    /\ \E x \in Units : GotNonOK(x)
    /\ \E x \in Units : resp[x].err

\* the caller's Record function writes and returns in this step
Finishing(w) == wpc[w] \in {"store", "atomic"} /\ wpc'[w] = "idle"

FrameOf(op) ==
    CASE op = "Request" ->
             /\ stats' = [stats EXCEPT !.Requests = @ + 1]
             /\ ExecutionsTime' = ExecutionsTime
      [] op = "Success" ->
             /\ stats' = [stats EXCEPT !.Successes = @ + 1]
             /\ ExecutionsTime' = ExecutionsTime
      [] op = "Failure" ->
             /\ stats' = [stats EXCEPT !.Failures = @ + 1]
             /\ ExecutionsTime' = ExecutionsTime
      [] op = "Time" ->
             /\ stats' = stats
             /\ Len(ExecutionsTime') = Len(ExecutionsTime) + 1

RecordFrame ==
    /\ \A w \in Callers : Finishing(w) => FrameOf(local[w].op)
    /\ (\A w \in Callers : ~Finishing(w)) =>
           stats' = stats /\ ExecutionsTime' = ExecutionsTime

\* C32: RecordRequest, RecordSuccess and RecordFailure each add one to their
\* own counter and leave the other two counters, the samples and the
\* percentile fields as they were; RecordTime adds a sample and leaves the
\* three counters and the percentile fields as they were.
C32_RecordFrame == [][RecordFrame]_vars

C32_Witness ==
    /\ stats.Successes = 1
    /\ stats.Failures = 1
    /\ stats.Requests = 0
    /\ Len(ExecutionsTime) = 1

\* workers whose client.Do has been started and has not returned
Calling == {w \in Workers : wpc[w] = "do"}

\* C33: no worker holds t.mu or the recorder's mutex while its HTTP call is
\* outstanding, so the locks do not serialise the calls: with C >= 2 and
\* N >= 2 two calls are outstanding at the same time in some reachable state.
C33_NoLockDuringCall == \A w \in Calling : mu # w /\ tmu # w

C33_Witness ==
    /\ concurrency >= 2
    /\ requests >= 2
    /\ \E w1, w2 \in Calling : w1 # w2 /\ cur[w1] # cur[w2]

Occurrences(s, v) == Cardinality({i \in 1..Len(s) : s[i] = v})
ValuesIn(s) == {s[i] : i \in 1..Len(s)}
SameMultiset(a, b) ==
    /\ Len(a) = Len(b)
    /\ \A v \in ValuesIn(a) \cup ValuesIn(b) : Occurrences(a, v) = Occurrences(b, v)

\* the sample collections in which the same values were appended in some order
Reorderings(times) == {t \in MetricsInputs : SameMultiset(t, times)}

Percentiles(st) == <<st.P50, st.P90, st.P99>>

\* CalculatePercentiles is applied in this step and returns
PercentilesCalled ==
    ret.fn = "none" /\ ret'.fn = "CalculatePercentiles" /\ ret'.err = "nil"

OrderIndependent ==
    PercentilesCalled =>
        /\ SameMultiset(ExecutionsTime, ExecutionsTime')
        /\ \A t \in Reorderings(ExecutionsTime) :
               Percentiles(CalculatePercentiles(stats, t)) = Percentiles(stats')

\* C34: CalculatePercentiles gives the same P50, P90 and P99 for every order in
\* which the same sample values were appended, and its in-place sort leaves
\* the multiset of ExecutionsTime as it was.
C34_OrderIndependent == [][OrderIndependent]_vars

C34_Witness ==
    /\ ret = [fn |-> "CalculatePercentiles", err |-> "nil"]
    /\ Cardinality(Reorderings(ExecutionsTime)) >= 3
    /\ stats.P50 # stats.P90

\* C35: Run of the ticker-dispatch Tester completes without a runtime panic
\* whatever the outcomes of the requests are, a run in which every request
\* fails at transport level included: SetFastestAndSlowest is never applied
\* to an empty ExecutionsTime.
C35_TickerRunNeverPanics ==
    early.kind = "ticker" =>
        /\ early.panic = "none"
        /\ early.pc \in {"report", "done"} => early.times # <<>>

\* the calls of DoRequest that have returned, by what client.Do gave them
Returned200 ==
    {i \in Goroutines : early.g[i] = "exited" /\ early.res[i] = OKResult}
ReturnedOther ==
    {i \in Goroutines : early.g[i] = "exited" /\ early.res[i] # OKResult}

\* C36: LoadGen.DoRequest counts each call as exactly one of success or
\* failure: a response other than 200 adds one failure and no success, a
\* transport error adds one failure and the missing response is not
\* dereferenced, and Requests = Success + Failures after LoadGen.Run.
C36_LoadGenClassifies ==
    early.kind = "loadgen" =>
        /\ ~Crashed
        /\ early.pc = "done" =>
              /\ early.stats.Success = Cardinality(Returned200)
              /\ early.stats.Failures = Cardinality(ReturnedOther)
              /\ early.stats.Requests =
                     early.stats.Success + early.stats.Failures

IntFields == {"Requests:", "Successes:", "Failures:"}
FloatFields == {"P50(ms):", "P90(ms):", "P99(ms):"}
\* a line of at least two pieces whose field name is unknown, or whose value
\* is not a number of the field's type
BadLine(pos) ==
    /\ Len(pos) >= 2
    /\ \/ pos[1].v \notin IntFields \cup FloatFields \cup {"Site:"}
       \/ pos[1].v \in IntFields /\ pos[2].kind # "dec"
       \/ pos[1].v \in FloatFields /\ pos[2].kind \notin {"dec", "fix3"}

\* the lines of the text that set the field
Setting(text, field) ==
    {i \in 1..Len(text) : Len(text[i]) >= 2 /\ text[i][1].v = field}
Last(S) == CHOOSE i \in S : \A j \in S : j <= i

\* the number a value stands for; percentiles are in ten-thousandths of a ms
WholeOf(word) == word.v
TenThousandthsOf(word) ==
    IF word.kind = "dec" THEN word.v * 10000 ELSE word.v * 10

\* what the field holds after the text was read: zero, or its last value
Expected(text, field, Of(_), zero) ==
    IF Setting(text, field) = {} THEN zero
    ELSE Of(text[Last(Setting(text, field))][2])
SiteOf(word) == <<word.v>>

Applies(name) ==
    /\ ctor'.applied = ctor.applied + 1
    /\ ctor'.last.name = name
    /\ ctor'.err = "none"

\* the configuration the options and flags stand for
Config(t) == [URL |-> t.URL, requests |-> t.requests,
              concurrency |-> t.concurrency, httpMethod |-> t.httpMethod,
              body |-> t.body, graphs |-> t.graphs]

\* the flags that occur in an argument list
Given(args) == {args[i] : i \in 1..Len(args)} \cap DefinedFlags

OptionFrame ==
    /\ Applies("WithURL") =>
           Config(ctor') = [Config(ctor) EXCEPT !.URL = ctor'.URL]
    /\ Applies("WithRequests") =>
           Config(ctor') = [Config(ctor) EXCEPT !.requests = ctor'.requests]
    /\ Applies("WithConcurrency") =>
           Config(ctor') = [Config(ctor) EXCEPT
                               !.concurrency = ctor'.concurrency]
    /\ Applies("WithHTTPMethod") =>
           Config(ctor') = [Config(ctor) EXCEPT !.httpMethod = ctor'.httpMethod]
    /\ Applies("WithBody") =>
           Config(ctor') = [Config(ctor) EXCEPT !.body = ctor'.body]
    /\ Applies("WithGraphs") =>
           Config(ctor') = [Config(ctor) EXCEPT !.graphs = ctor'.graphs]
    /\ (Applies("WithStdout") \/ Applies("WithStderr")) =>
           Config(ctor') = Config(ctor)
    /\ Applies("FromArgs") =>
           /\ "-u" \notin Given(ctor'.last.arg) => ctor'.URL = ctor.URL
           /\ "-r" \notin Given(ctor'.last.arg) =>
                  ctor'.requests = ctor.requests
           /\ "-c" \notin Given(ctor'.last.arg) =>
                  ctor'.concurrency = ctor.concurrency
           /\ "-m" \notin Given(ctor'.last.arg) =>
                  ctor'.httpMethod = ctor.httpMethod
           /\ "-b" \notin Given(ctor'.last.arg) => ctor'.body = ctor.body
           /\ "-g" \notin Given(ctor'.last.arg) => ctor'.graphs = ctor.graphs

\* C38: an option applied by NewTester changes only the configuration it
\* names; FromArgs leaves URL, requests, concurrency, method, body and graphs
\* as earlier options set them for every flag that args does not hold.
C38_OptionFrame == [][OptionFrame]_vars

====
